---------------------------- MODULE Spec2Model ----------------------------
(***************************************************************************)
(* A model of the CrossPoint Reader upload path:                           *)
(*   crosspoint_reader/ws_client.py  WebSocketClient, upload_file          *)
(*   crosspoint_reader/driver.py     CrossPointDevice.upload_books         *)
(*                                                                         *)
(* One upload session is one run of upload_file.  The client is a          *)
(* sequential process whose position is pc; the device and the network     *)
(* are the environment: the device may put any frame of DeviceFrames into  *)
(* the client's receive buffer (inbox) at any moment of an established     *)
(* connection, may close its end, and every blocking socket call may fail. *)
(*                                                                         *)
(* Bytes are integers 0..255, a text is the sequence of its code points    *)
(* (all ASCII here).  The payload of a Binary chunk frame is kept as the   *)
(* range [off, len] of the file it carries (bytes off .. off+len-1), so    *)
(* that the program's real sizes (2048, 16384, 5000) can be used.          *)
(* The operating system's close of the socket is taken to succeed.         *)
(*                                                                         *)
(* Four specifications share the module:                                   *)
(*   Spec        one upload session, frame by frame                        *)
(*   SpecCodec   _send_frame writing and _read_frame reading back, byte by *)
(*               byte                                                      *)
(*   SpecClient  the methods of one WebSocketClient called in any order,   *)
(*               over a byte stream the peer sends in segments             *)
(*   SpecLive    one read_text call in time, under fairness                *)
(* Each leaves the variables of the others at their idle values.           *)
(***************************************************************************)
EXTENDS Integers, Sequences, FiniteSets, TLC

VARIABLES
    pc,          \* position of upload_file
    caller,      \* "upload_books" (driver) or "upload_file" (called with its default)
    chunk_size,  \* upload_file's chunk_size argument
    fileLen,     \* length in bytes of the file at filepath
    size,        \* upload_file's local: os.path.getsize(filepath)
    sock,        \* client.sock: "None" or "open"
    peer,        \* the device's end of the connection: "open" or "closed"
    inbox,       \* frames received from the device, not yet read by the client
    wire,        \* frames the client has written to the socket, in order
    msg,         \* upload_file's local: the last value returned by read_text
    exc,         \* the exception propagating out of the try block, or NoExc
    fpos,        \* position of the file object f
    sent,        \* upload_file's local: bytes sent so far
    progress,    \* the calls made to progress_cb, as <<sent, size>>
    messages,    \* drain_messages' local list
    closeCalls,  \* number of calls of client.close()
    devSent,     \* number of frames the device has sent
    rt,          \* the running read_text call: the frames it has read, len(wire) at its start
    returned,    \* the values returned by read_text so far, in order
    \* the frame codec on its own (_send_frame writing, _read_frame reading back)
    tx,          \* the bytes _send_frame has passed to sendall, in order
    txlog,       \* the (opcode, payload, mask) of each _send_frame call
    rpos,        \* number of bytes of tx that _read_frame has consumed
    rxd,         \* the (opcode, payload) pairs _read_frame has returned
    \* a WebSocketClient object driven call by call
    csock,       \* self.sock: "None" or "open"
    out,         \* the byte strings passed to sendall so far, one per call that succeeded
                 \* (under SpecLive: those the peer has not read yet)
    inb,         \* bytes received from the peer, not yet returned by recv
    script,      \* the segments the peer has still to send
    pend,        \* the peer's end of the connection: "open" or "closed"
    call,        \* the method call in progress, with its locals
    last,        \* the method call that ended last, with its outcome
    ncalls,      \* number of method calls that have ended
    connects,    \* number of calls of connect()
    ncloses,     \* number of calls of close()
    oscloses,    \* number of calls of the socket's close()
    failedAt,    \* 0, or the number of the first call ended by an I/O failure
    \* time, in seconds, while a read_text call runs
    elapsed,     \* time since read_text set its deadline, up to timeout + 1
    waited,      \* time the recv in progress has been waiting, up to timeout
    \* what the device knows, under SpecLate
    doneAfterLast, \* the device has sent "DONE" after the final chunk was written to it
    \* one run of discover_device
    dpc,         \* position of discover_device
    extra_hosts, \* its argument: the candidate hosts
    targets,     \* its local: the (host, port) pairs to probe
    attempt,     \* rounds of "for _ in range(3)" that have ended
    ti,          \* sendto calls made in the round in progress
    failedRounds, \* the rounds in which a sendto has raised
    dgrams,      \* datagrams received by the socket, not yet returned by recvfrom
    arrived,     \* number of datagrams the socket has received
    result       \* the value returned: (host, port) or (None, None)

\* the state of an upload session
sessionVars == <<pc, caller, chunk_size, fileLen, size, sock, peer, inbox, wire, msg,
                 exc, fpos, sent, progress, messages, closeCalls, devSent, rt, returned>>
\* the state of the codec
codecVars == <<tx, txlog, rpos, rxd>>

\* what an upload session leaves alone
\* the state of a client object
clientVars == <<csock, out, inb, script, pend, call, last, ncalls, connects, ncloses,
                oscloses, failedAt>>

\* the clocks of a read_text call
liveVars == <<elapsed, waited>>

\* the state added by the remaining specifications
\* the state of a discovery
discoverVars == <<dpc, extra_hosts, targets, attempt, ti, failedRounds, dgrams, arrived, result>>

restVars == <<doneAfterLast, discoverVars>>

otherVars == <<codecVars, clientVars, liveVars, restVars>>

vars == <<sessionVars, otherVars>>

----------------------------------------------------------------------------
(* Bounds of the model *)

\* frames the device sends in one session
MaxDeviceFrames == 3
\* frames that can wait unread in the client's receive buffer
MaxInbox == 2

(* Program constants *)

\* driver.py: chunk_size is capped to 2048
ChunkCap == 2048
\* ws_client.py: upload_file(..., chunk_size=16384, ...)
DefaultChunkSize == 16384

\* values of PREFS['chunk_size'] (config.py: default 2048, spin box 512..65536)
ConfiguredChunkSizes == {512, 2048, 8192}
\* lengths of the uploaded file
FileSizes == {0, 1, 2048, 2049, 5000}

----------------------------------------------------------------------------
(* Texts, as sequences of code points *)

\* "READY"
READY == <<82, 69, 65, 68, 89>>
\* "READY " (trailing blank)
READY_SP == <<82, 69, 65, 68, 89, 32>>
\* "DONE"
DONE == <<68, 79, 78, 69>>
\* "ERROR"
ERROR == <<69, 82, 82, 79, 82>>
\* "ERROR:disk full"
ERROR_DISK_FULL == <<69, 82, 82, 79, 82, 58, 100, 105, 115, 107, 32, 102, 117, 108, 108>>
\* "50%", an intermediate status text
STATUS == <<53, 48, 37>>
\* "START:"
START_PREFIX == <<83, 84, 65, 82, 84, 58>>
\* ":"
COLON == <<58>>
\* "book.epub"
filename == <<98, 111, 111, 107, 46, 101, 112, 117, 98>>
\* "/Books"
upload_path == <<47, 66, 111, 111, 107, 115>>
\* "Unexpected response: "
UNEXPECTED == <<85, 110, 101, 120, 112, 101, 99, 116, 101, 100, 32, 114, 101, 115,
                112, 111, 110, 115, 101, 58, 32>>
\* "<empty>"
EMPTY_TAG == <<60, 101, 109, 112, 116, 121, 62>>
\* "Timed out waiting for text frame"
TIMED_OUT == <<84, 105, 109, 101, 100, 32, 111, 117, 116, 32, 119, 97, 105, 116, 105,
               110, 103, 32, 102, 111, 114, 32, 116, 101, 120, 116, 32, 102, 114, 97,
               109, 101>>
\* "Connection closed"
CONNECTION_CLOSED == <<67, 111, 110, 110, 101, 99, 116, 105, 111, 110, 32, 99, 108,
                       111, 115, 101, 100>>
\* "Socket closed"
SOCKET_CLOSED == <<83, 111, 99, 107, 101, 116, 32, 99, 108, 111, 115, 101, 100>>
\* "Socket not connected"
SOCKET_NOT_CONNECTED == <<83, 111, 99, 107, 101, 116, 32, 110, 111, 116, 32, 99, 111, 110,
                          110, 101, 99, 116, 101, 100>>
\* "Handshake failed: "
HANDSHAKE_FAILED == <<72, 97, 110, 100, 115, 104, 97, 107, 101, 32, 102, 97, 105, 108,
                      101, 100, 58, 32>>
\* "HTTP/1.1 101 Switching Protocols"
STATUS_101 == <<72, 84, 84, 80, 47, 49, 46, 49, 32, 49, 48, 49, 32, 83, 119, 105, 116,
                99, 104, 105, 110, 103, 32, 80, 114, 111, 116, 111, 99, 111, 108, 115>>
\* "HTTP/1.1 404 Not Found"
STATUS_404 == <<72, 84, 84, 80, 47, 49, 46, 49, 32, 52, 48, 52, 32, 78, 111, 116, 32,
                70, 111, 117, 110, 100>>
\* " 101 "
CODE_101 == <<32, 49, 48, 49, 32>>

Min(a, b) == IF a < b THEN a ELSE b

\* str.startswith
StartsWith(s, p) == Len(s) >= Len(p) /\ SubSeq(s, 1, Len(p)) = p

\* p in s, for byte strings
Contains(s, p) ==
    \E i \in 0..(Len(s) - Len(p)) : SubSeq(s, i + 1, i + Len(p)) = p

\* str(n) for n >= 0
RECURSIVE Str(_)
Str(n) == IF n < 10 THEN <<48 + n>> ELSE Str(n \div 10) \o <<48 + (n % 10)>>

\* bytes.decode('utf-8', 'ignore') on payloads made of ASCII bytes and stray
\* bytes >= 128 that start no valid sequence: the stray bytes are dropped
Decode(payload) == SelectSeq(payload, LAMBDA b : b < 128)

\* str.encode('utf-8') of an ASCII text
Encode(text) == text

----------------------------------------------------------------------------
(* Frames and exceptions *)

\* opcode 0, a continuation frame: one of the opcodes the code has no case for
OP_CONTINUATION == 0
OP_TEXT == 1
OP_BINARY == 2
OP_CLOSE == 8
OP_PING == 9
OP_PONG == 10

Frame(op, payload) == [op |-> op, payload |-> payload]

\* the bytes off .. off+len-1 of the file
FileChunk(off, len) == [off |-> off, len |-> len]

NoExc == [type |-> "None", text |-> <<>>]
WebSocketError(text) == [type |-> "WebSocketError", text |-> text]
\* OSError / socket.timeout raised by the socket or the file system
OSError == [type |-> "OSError", text |-> <<>>]

\* what the device may send
DeviceFrames ==
    { Frame(OP_TEXT, READY), Frame(OP_TEXT, READY_SP), Frame(OP_TEXT, DONE),
      Frame(OP_TEXT, <<>>), Frame(OP_TEXT, <<255>>),
      Frame(OP_TEXT, ERROR_DISK_FULL), Frame(OP_TEXT, STATUS),
      Frame(OP_PING, <<120>>), Frame(OP_PONG, <<120>>),
      Frame(OP_BINARY, <<120>>), Frame(OP_CLOSE, <<>>) }

\* first lines of the HTTP response to the upgrade request
StatusLines == { STATUS_101, STATUS_404, <<>> }


----------------------------------------------------------------------------
(* The pure parts of the code *)

\* driver.py, upload_books: chunk_size = PREFS['chunk_size'], capped to 2048
upload_books_chunk_size(pref) == IF pref > ChunkCap THEN ChunkCap ELSE pref

\* connect: b' 101 ' in the first line of the response
handshake_ok(line) == Contains(line, CODE_101)

\* file_read that yields only whole chunks: the file's tail is dropped
file_read_whole_chunks(pos, n, flen) == IF flen - pos >= n THEN n ELSE 0

\* f.read(n) that returns n bytes whatever is left of the file
file_read_past_end(pos, n, flen) == n

\* len(f.read(n)) for a file of flen bytes at position pos
file_read(pos, n, flen) == Min(n, flen - pos)

\* upload_file: f'START:{filename}:{size}:{upload_path}'
start_text(sz) == START_PREFIX \o filename \o COLON \o Str(sz) \o COLON \o upload_path

\* ready_reply comparing only the first five characters with READY
ready_reply_prefix(m) ==
    IF m = <<>> THEN WebSocketError(UNEXPECTED \o EMPTY_TAG)
    ELSE IF StartsWith(m, ERROR) THEN WebSocketError(m)
    ELSE IF ~StartsWith(m, READY) THEN WebSocketError(UNEXPECTED \o m)
    ELSE NoExc

\* ready_reply without the ERROR branch: the device's text is wrapped
ready_reply_wrapped(m) ==
    IF m = <<>> THEN WebSocketError(UNEXPECTED \o EMPTY_TAG)
    ELSE IF m # READY THEN WebSocketError(UNEXPECTED \o m)
    ELSE NoExc

\* ready_reply testing "msg and msg != 'READY'": an empty reply passes
ready_reply_empty_passes(m) ==
    IF StartsWith(m, ERROR) THEN WebSocketError(m)
    ELSE IF m # <<>> /\ m # READY THEN WebSocketError(UNEXPECTED \o m)
    ELSE NoExc

\* upload_file, after START: the exception raised for the reply m, NoExc for READY
ready_reply(m) ==
    IF m = <<>> THEN WebSocketError(UNEXPECTED \o EMPTY_TAG)
    ELSE IF StartsWith(m, ERROR) THEN WebSocketError(m)
    ELSE IF m # READY THEN WebSocketError(UNEXPECTED \o m)
    ELSE NoExc

\* completion_reply with the empty-reply check of the READY wait copied in
completion_reply_empty_fails(m) ==
    IF m = <<>> THEN [do |-> "raise", exc |-> WebSocketError(UNEXPECTED \o EMPTY_TAG)]
    ELSE IF m = DONE THEN [do |-> "return", exc |-> NoExc]
    ELSE IF StartsWith(m, ERROR) THEN [do |-> "raise", exc |-> WebSocketError(m)]
    ELSE [do |-> "wait", exc |-> NoExc]

\* upload_file, completion wait: what a received text m does
completion_reply(m) ==
    IF m = DONE THEN [do |-> "return", exc |-> NoExc]
    ELSE IF StartsWith(m, ERROR) THEN [do |-> "raise", exc |-> WebSocketError(m)]
    ELSE [do |-> "wait", exc |-> NoExc]

\* read_text_dispatch answering a Ping with an empty Pong
read_text_dispatch_empty_pong(f) ==
    IF f.op = OP_CLOSE THEN
        [do |-> "raise", exc |-> WebSocketError(CONNECTION_CLOSED), pong |-> <<>>, text |-> <<>>]
    ELSE IF f.op = OP_PING THEN
        [do |-> "pong", exc |-> NoExc, pong |-> <<>>, text |-> <<>>]
    ELSE IF f.op # OP_TEXT THEN
        [do |-> "continue", exc |-> NoExc, pong |-> <<>>, text |-> <<>>]
    ELSE
        [do |-> "return", exc |-> NoExc, pong |-> <<>>, text |-> Decode(f.payload)]

\* read_text_dispatch that takes a Binary frame for a Text frame
read_text_dispatch_returns_binary(f) ==
    IF f.op = OP_CLOSE THEN
        [do |-> "raise", exc |-> WebSocketError(CONNECTION_CLOSED), pong |-> <<>>, text |-> <<>>]
    ELSE IF f.op = OP_PING THEN
        [do |-> "pong", exc |-> NoExc, pong |-> f.payload, text |-> <<>>]
    ELSE IF f.op \notin {OP_TEXT, OP_BINARY} THEN
        [do |-> "continue", exc |-> NoExc, pong |-> <<>>, text |-> <<>>]
    ELSE
        [do |-> "return", exc |-> NoExc, pong |-> <<>>, text |-> Decode(f.payload)]

\* read_text: what one received frame f does
read_text_dispatch(f) ==
    IF f.op = OP_CLOSE THEN
        [do |-> "raise", exc |-> WebSocketError(CONNECTION_CLOSED), pong |-> <<>>, text |-> <<>>]
    ELSE IF f.op = OP_PING THEN
        [do |-> "pong", exc |-> NoExc, pong |-> f.payload, text |-> <<>>]
    ELSE IF f.op = OP_PONG THEN
        [do |-> "continue", exc |-> NoExc, pong |-> <<>>, text |-> <<>>]
    ELSE IF f.op # OP_TEXT THEN
        [do |-> "continue", exc |-> NoExc, pong |-> <<>>, text |-> <<>>]
    ELSE
        [do |-> "return", exc |-> NoExc, pong |-> <<>>, text |-> Decode(f.payload)]

\* drain_dispatch that ignores every frame but Text, Close included
drain_dispatch_ignore_close(f) ==
    IF f.op = OP_TEXT THEN [do |-> "append", text |-> Decode(f.payload)]
    ELSE [do |-> "ignore", text |-> <<>>]

\* drain_dispatch that keeps the payload of a Ping as a message
drain_dispatch_ping_as_text(f) ==
    IF f.op \in {OP_TEXT, OP_PING} THEN [do |-> "append", text |-> Decode(f.payload)]
    ELSE IF f.op = OP_CLOSE THEN [do |-> "raise", text |-> <<>>]
    ELSE [do |-> "ignore", text |-> <<>>]

\* drain_messages: what one received frame f does
drain_dispatch(f) ==
    IF f.op = OP_TEXT THEN [do |-> "append", text |-> Decode(f.payload)]
    ELSE IF f.op = OP_CLOSE THEN [do |-> "raise", text |-> <<>>]
    ELSE [do |-> "ignore", text |-> <<>>]

----------------------------------------------------------------------------
(* The state machine *)

\* the codec is not in use
CodecIdle == tx = <<>> /\ txlog = <<>> /\ rpos = 0 /\ rxd = <<>>

\* no read_text call is being timed
LiveIdle == elapsed = 0 /\ waited = 0

\* no device has sent anything
RestIdle ==
    /\ doneAfterLast = FALSE
    /\ dpc = "idle" /\ extra_hosts = <<>> /\ targets = <<>> /\ attempt = 0 /\ ti = 0
    /\ failedRounds = {} /\ dgrams = <<>> /\ arrived = 0 /\ result = <<>>

\* no frame read yet
NoFrame == [op |-> -1, payload |-> <<>>]

\* no method call in progress
NoCall == [op |-> "none", data |-> <<>>, msgs |-> <<>>, n |-> 0, blocked |-> FALSE,
           io |-> 0, writes |-> <<>>, sock0 |-> "None", frame |-> NoFrame,
           sendFailed |-> FALSE]

\* no method call has ended yet
NoResult == [op |-> "none", status |-> "none", exc |-> NoExc, value |-> <<>>, io |-> 0,
             writes |-> <<>>, sock0 |-> "None", sock1 |-> "None", frame |-> NoFrame,
             data |-> <<>>, sendFailed |-> FALSE]

\* no client object is in use
ClientIdle ==
    /\ csock = "None"
    /\ out = <<>>
    /\ inb = <<>>
    /\ script = <<>>
    /\ pend = "open"
    /\ call = NoCall
    /\ last = NoResult
    /\ ncalls = 0
    /\ connects = 0
    /\ ncloses = 0
    /\ oscloses = 0
    /\ failedAt = 0

\* a read_text call that starts when the wire holds w
NewReadText(w) == [frames |-> <<>>, wire0 |-> Len(w)]

\* positions at which the WebSocket connection is established
Established == {"getsize", "send_start", "await_ready", "check_ready",
                "transfer", "drain", "await_done", "check_done"}

Init ==
    /\ pc = "connect"
    /\ caller \in {"upload_books", "upload_file"}
    /\ chunk_size \in IF caller = "upload_books"
                      THEN {upload_books_chunk_size(p) : p \in ConfiguredChunkSizes}
                      ELSE {DefaultChunkSize}
    /\ fileLen \in FileSizes
    /\ size = 0
    /\ sock = "None"
    /\ peer = "open"
    /\ inbox = <<>>
    /\ wire = <<>>
    /\ msg = <<>>
    /\ exc = NoExc
    /\ fpos = 0
    /\ sent = 0
    /\ progress = <<>>
    /\ messages = <<>>
    /\ closeCalls = 0
    /\ devSent = 0
    /\ rt = NewReadText(<<>>)
    /\ returned = <<>>
    /\ CodecIdle
    /\ ClientIdle
    /\ LiveIdle
    /\ RestIdle

\* an exception leaves the try block: control goes to the finally clause
Raise(e) == pc' = "finally" /\ exc' = e

\* upload_file: client.connect()
connect ==
    /\ pc = "connect"
    /\ \/ \* socket.create_connection raises; self.sock was never assigned
          /\ Raise(OSError)
          /\ UNCHANGED sock
       \/ \* sendall of the request, or recv of the response, raises
          /\ sock' = "open"
          /\ Raise(OSError)
       \/ \* a response (or an early end of stream) is read
          \E line \in StatusLines :
             /\ sock' = "open"
             /\ IF handshake_ok(line)
                THEN pc' = "getsize" /\ UNCHANGED exc
                ELSE Raise(WebSocketError(HANDSHAKE_FAILED \o Decode(line)))
    /\ UNCHANGED <<caller, chunk_size, fileLen, size, peer, inbox, wire, msg, fpos, sent,
                   progress, messages, closeCalls, devSent, rt, returned>>

\* upload_file: size = os.path.getsize(filepath)
getsize ==
    /\ pc = "getsize"
    /\ \/ size' = fileLen /\ pc' = "send_start" /\ UNCHANGED exc
       \/ Raise(OSError) /\ UNCHANGED size
    /\ UNCHANGED <<caller, chunk_size, fileLen, sock, peer, inbox, wire, msg, fpos, sent,
                   progress, messages, closeCalls, devSent, rt, returned>>

\* upload_file: client.send_text(start)
send_start ==
    /\ pc = "send_start"
    /\ IF sock = "None"
       THEN Raise(WebSocketError(SOCKET_NOT_CONNECTED)) /\ UNCHANGED <<wire, rt>>
       ELSE \/ /\ wire' = Append(wire, Frame(OP_TEXT, Encode(start_text(size))))
               /\ pc' = "await_ready"
               /\ rt' = NewReadText(wire')
               /\ UNCHANGED exc
            \/ Raise(OSError) /\ UNCHANGED <<wire, rt>>
    /\ UNCHANGED <<caller, chunk_size, fileLen, size, sock, peer, inbox, msg, fpos, sent,
                   progress, messages, closeCalls, devSent, returned>>

\* one iteration of read_text's loop, called at position at; its value goes to position to
read_text(at, to) ==
    /\ pc = at
    /\ \/ \* time.time() > deadline, at the top of an iteration after the first
          /\ rt.frames # <<>>
          /\ Raise(WebSocketError(TIMED_OUT))
          /\ UNCHANGED <<inbox, wire, msg, rt, returned>>
       \/ \* _read_frame: the socket's timeout passes with nothing received
          /\ inbox = <<>> /\ peer = "open"
          /\ Raise(OSError)
          /\ UNCHANGED <<inbox, wire, msg, rt, returned>>
       \/ \* _read_frame: recv returns b'', the peer has closed
          /\ inbox = <<>> /\ peer = "closed"
          /\ Raise(WebSocketError(SOCKET_CLOSED))
          /\ UNCHANGED <<inbox, wire, msg, rt, returned>>
       \/ \* _read_frame returns a frame
          /\ inbox # <<>>
          /\ LET f == Head(inbox)
                 d == read_text_dispatch(f)
             IN /\ inbox' = Tail(inbox)
                /\ rt' = [rt EXCEPT !.frames = Append(@, f)]
                /\ IF d.do = "raise" THEN
                       Raise(d.exc) /\ UNCHANGED <<wire, msg, returned>>
                   ELSE IF d.do = "pong" THEN
                       \* self._send_frame(0xA, payload)
                       IF sock = "None"
                       THEN Raise(WebSocketError(SOCKET_NOT_CONNECTED))
                            /\ UNCHANGED <<wire, msg, returned>>
                       ELSE \E ok \in BOOLEAN :
                              IF ok
                              THEN /\ wire' = Append(wire, Frame(OP_PONG, d.pong))
                                   /\ UNCHANGED <<pc, exc, msg, returned>>
                              ELSE Raise(OSError) /\ UNCHANGED <<wire, msg, returned>>
                   ELSE IF d.do = "continue" THEN
                       UNCHANGED <<pc, exc, wire, msg, returned>>
                   ELSE
                       /\ msg' = d.text
                       /\ returned' = Append(returned, d.text)
                       /\ pc' = to
                       /\ UNCHANGED <<exc, wire>>
    /\ UNCHANGED <<caller, chunk_size, fileLen, size, sock, peer, fpos, sent, progress,
                   messages, closeCalls, devSent>>

\* upload_file: msg = client.read_text(), after START
await_ready == read_text("await_ready", "check_ready")

\* upload_file: the checks of the reply to START, sent = 0 and open(filepath, 'rb')
check_ready ==
    /\ pc = "check_ready"
    /\ IF ready_reply(msg) # NoExc
       THEN Raise(ready_reply(msg)) /\ UNCHANGED <<sent, fpos>>
       ELSE /\ sent' = 0
            /\ \/ fpos' = 0 /\ pc' = "transfer" /\ UNCHANGED exc
               \/ Raise(OSError) /\ UNCHANGED fpos
    /\ UNCHANGED <<caller, chunk_size, fileLen, size, sock, peer, inbox, wire, msg,
                   progress, messages, closeCalls, devSent, rt, returned>>

\* upload_file: chunk = f.read(chunk_size), send_binary(chunk), sent += len(chunk),
\* progress_cb(sent, size); at the end of the file the completion wait starts
\* (upload_books passes a progress_cb; upload_file's default is None)
transfer ==
    /\ pc = "transfer"
    /\ LET n == file_read(fpos, chunk_size, fileLen)
       IN IF n = 0
          THEN /\ pc' = "await_done"
               /\ rt' = NewReadText(wire)
               /\ UNCHANGED <<exc, wire, fpos, sent, progress, messages>>
          ELSE /\ fpos' = fpos + n
               /\ IF sock = "None"
                  THEN Raise(WebSocketError(SOCKET_NOT_CONNECTED))
                       /\ UNCHANGED <<wire, sent, progress, messages, rt>>
                  ELSE \/ /\ wire' = Append(wire, Frame(OP_BINARY, FileChunk(fpos, n)))
                          /\ sent' = sent + n
                          /\ progress' = IF caller = "upload_books"
                                         THEN Append(progress, <<sent', size>>)
                                         ELSE progress
                          /\ messages' = <<>>
                          /\ pc' = "drain"
                          /\ UNCHANGED <<exc, rt>>
                       \/ Raise(OSError) /\ UNCHANGED <<wire, sent, progress, messages, rt>>
    /\ UNCHANGED <<caller, chunk_size, fileLen, size, sock, peer, inbox, msg,
                   closeCalls, devSent, returned>>

\* one iteration of drain_messages' loop; its result is dropped by upload_file
drain_messages ==
    /\ pc = "drain"
    /\ \/ \* select reports nothing to read: return messages
          /\ inbox = <<>> /\ peer = "open"
          /\ pc' = "transfer"
          /\ UNCHANGED <<exc, inbox, messages>>
       \/ \* select reports the end of the stream; _recv_exact raises
          /\ inbox = <<>> /\ peer = "closed"
          /\ Raise(WebSocketError(SOCKET_CLOSED))
          /\ UNCHANGED <<inbox, messages>>
       \/ \* _read_frame returns a frame
          /\ inbox # <<>>
          /\ LET d == drain_dispatch(Head(inbox))
             IN /\ inbox' = Tail(inbox)
                /\ IF d.do = "raise" THEN
                       Raise(WebSocketError(CONNECTION_CLOSED)) /\ UNCHANGED messages
                   ELSE IF d.do = "append" THEN
                       messages' = Append(messages, d.text) /\ UNCHANGED <<pc, exc>>
                   ELSE
                       UNCHANGED <<pc, exc, messages>>
    /\ UNCHANGED <<caller, chunk_size, fileLen, size, sock, peer, wire, msg, fpos, sent,
                   progress, closeCalls, devSent, rt, returned>>

\* upload_file: msg = client.read_text(), in the completion wait
await_done == read_text("await_done", "check_done")

\* upload_file: the checks of a text received in the completion wait
check_done ==
    /\ pc = "check_done"
    /\ LET d == completion_reply(msg)
       IN IF d.do = "return" THEN pc' = "finally" /\ UNCHANGED <<exc, rt>>
          ELSE IF d.do = "raise" THEN Raise(d.exc) /\ UNCHANGED rt
          ELSE pc' = "await_done" /\ rt' = NewReadText(wire) /\ UNCHANGED exc
    /\ UNCHANGED <<caller, chunk_size, fileLen, size, sock, peer, inbox, wire, msg, fpos,
                   sent, progress, messages, closeCalls, devSent, returned>>

\* close without its try blocks: a failed send of the Close frame leaves close()
\* before the socket is released
close_unguarded ==
    /\ pc = "finally"
    /\ closeCalls' = closeCalls + 1
    /\ IF sock = "None"
       THEN UNCHANGED <<sock, wire>>
       ELSE \E ok \in BOOLEAN :
              IF ok
              THEN wire' = Append(wire, Frame(OP_CLOSE, <<>>)) /\ sock' = "None"
              ELSE UNCHANGED <<sock, wire>>
    /\ pc' = "end"
    /\ UNCHANGED <<caller, chunk_size, fileLen, size, peer, inbox, msg, exc, fpos, sent,
                   progress, messages, devSent, rt, returned>>

\* upload_file's finally clause: client.close()
close ==
    /\ pc = "finally"
    /\ closeCalls' = closeCalls + 1
    /\ IF sock = "None"
       THEN UNCHANGED <<sock, wire>>
       ELSE /\ \E ok \in BOOLEAN :
                 \* _send_frame(0x8, b''), an exception of which is dropped
                 wire' = IF ok THEN Append(wire, Frame(OP_CLOSE, <<>>)) ELSE wire
            /\ sock' = "None"
    /\ pc' = "end"
    /\ UNCHANGED <<caller, chunk_size, fileLen, size, peer, inbox, msg, exc, fpos, sent,
                   progress, messages, devSent, rt, returned>>

\* the device sends a frame
device_send ==
    /\ pc \in Established
    /\ peer = "open"
    /\ devSent < MaxDeviceFrames
    /\ Len(inbox) < MaxInbox
    /\ \E f \in DeviceFrames : inbox' = Append(inbox, f)
    /\ devSent' = devSent + 1
    /\ UNCHANGED <<pc, caller, chunk_size, fileLen, size, sock, peer, wire, msg, exc, fpos,
                   sent, progress, messages, closeCalls, rt, returned>>

\* the device closes its end of the connection
device_close ==
    /\ pc \in Established
    /\ peer = "open"
    /\ peer' = "closed"
    /\ UNCHANGED <<pc, caller, chunk_size, fileLen, size, sock, inbox, wire, msg, exc, fpos,
                   sent, progress, messages, closeCalls, devSent, rt, returned>>

Next ==
    \/ connect /\ UNCHANGED otherVars
    \/ getsize /\ UNCHANGED otherVars
    \/ send_start /\ UNCHANGED otherVars
    \/ await_ready /\ UNCHANGED otherVars
    \/ check_ready /\ UNCHANGED otherVars
    \/ transfer /\ UNCHANGED otherVars
    \/ drain_messages /\ UNCHANGED otherVars
    \/ await_done /\ UNCHANGED otherVars
    \/ check_done /\ UNCHANGED otherVars
    \/ close /\ UNCHANGED otherVars
    \/ device_send /\ UNCHANGED otherVars
    \/ device_close /\ UNCHANGED otherVars

Spec == Init /\ [][Next]_vars

\* the outcome of the session
Done == pc = "end" /\ exc = NoExc
Failed == pc = "end" /\ exc # NoExc

----------------------------------------------------------------------------
(* The claims *)

\* the Binary frames sent so far, in order
BinaryFrames == SelectSeq(wire, LAMBDA f : f.op = OP_BINARY)

NoBinarySent == \A i \in DOMAIN wire : wire[i].op # OP_BINARY

CeilDiv(a, b) == (a + b - 1) \div b

RECURSIVE SumLen(_)
SumLen(fs) == IF fs = <<>> THEN 0 ELSE Head(fs).payload.len + SumLen(Tail(fs))

\* "START:book.epub:5000:/Books"
START_5000 == <<83, 84, 65, 82, 84, 58, 98, 111, 111, 107, 46, 101, 112, 117, 98, 58,
                53, 48, 48, 48, 58, 47, 66, 111, 111, 107, 115>>

\* C1: in every run of upload_file, whatever its outcome, close() is called exactly
\* once, and when upload_file returns or raises the client holds no socket.
C1_CloseOnceSocketReleased ==
    /\ pc = "end" => closeCalls = 1 /\ sock = "None"
    /\ pc # "end" => closeCalls = 0

\* a chunk send raised after one chunk had been sent, and the Close frame of the
\* cleanup could not be sent either
C1_Witness ==
    /\ Failed /\ exc = OSError
    /\ Len(BinaryFrames) = 1 /\ fpos > sent
    /\ wire[Len(wire)].op # OP_CLOSE
    /\ closeCalls = 1 /\ sock = "None"

\* C2: the frames of a session are ordered: the START text is the first frame
\* sent and the only Text frame, and a Binary frame is sent only after read_text
\* has returned exactly "READY" as the reply to START.
C2_StartFirstBinaryAfterReady ==
    /\ \A i \in DOMAIN wire :
          wire[i].op = OP_TEXT => i = 1 /\ wire[i].payload = start_text(fileLen)
    /\ \A i \in DOMAIN wire :
          wire[i].op \in {OP_BINARY, OP_PONG} => wire[1].op = OP_TEXT
    /\ pc \in {"await_ready", "check_ready", "transfer", "drain", "await_done", "check_done"}
          => wire # <<>> /\ wire[1].op = OP_TEXT
    /\ ~NoBinarySent => returned # <<>> /\ returned[1] = READY

\* START:book.epub:5000:/Books, READY, then a chunk
C2_Witness ==
    /\ Len(wire) >= 2
    /\ wire[1] = Frame(OP_TEXT, START_5000)
    /\ wire[2].op = OP_BINARY
    /\ returned[1] = READY

\* C3: if the first text received after START begins with "ERROR", the session
\* fails with exactly that text as its error and no Binary frame is sent.
C3_ErrorReplyFailsVerbatim ==
    (returned # <<>> /\ StartsWith(returned[1], ERROR)) =>
        /\ pc \in {"check_ready", "finally", "end"}
        /\ pc # "check_ready" => exc = WebSocketError(returned[1])
        /\ NoBinarySent

\* the device answered START with ERROR:disk full
C3_Witness ==
    /\ Failed
    /\ returned = <<ERROR_DISK_FULL>>
    /\ exc = WebSocketError(ERROR_DISK_FULL)
    /\ NoBinarySent

\* C4: if the first text received after START is empty, or is neither exactly
\* "READY" nor begins with "ERROR", the session fails with an "Unexpected
\* response" error and no Binary frame is sent.
C4_OtherReplyUnexpected ==
    (returned # <<>> /\ returned[1] # READY /\ ~StartsWith(returned[1], ERROR)) =>
        /\ pc \in {"check_ready", "finally", "end"}
        /\ pc # "check_ready" =>
              /\ exc.type = "WebSocketError"
              /\ StartsWith(exc.text, UNEXPECTED)
              /\ returned[1] = <<>> => exc.text = UNEXPECTED \o EMPTY_TAG
        /\ NoBinarySent

\* the device answered START with the empty text
C4_Witness ==
    /\ Failed
    /\ returned = << <<>> >>
    /\ exc = WebSocketError(UNEXPECTED \o EMPTY_TAG)

\* C5: a session in the completion wait has sent ceil(size/chunk_size) Binary
\* frames, the k-th carrying the file's bytes from (k-1)*chunk_size on, each of
\* chunk_size bytes but the last, which carries the rest; the lengths sum to size,
\* and an empty file sends none.
C5_ChunkSequence ==
    pc \in {"await_done", "check_done"} =>
        LET B == BinaryFrames
            n == CeilDiv(size, chunk_size)
        IN /\ Len(B) = n
           /\ \A k \in 1..n :
                 B[k].payload = FileChunk((k - 1) * chunk_size,
                                          IF k < n THEN chunk_size
                                          ELSE size - chunk_size * (n - 1))
           /\ SumLen(B) = size
           /\ size = 0 => NoBinarySent

\* 5000 bytes in chunks of 2048: 2048, 2048, 904
C5_Witness ==
    /\ pc = "await_done"
    /\ size = 5000 /\ chunk_size = 2048
    /\ Len(BinaryFrames) = 3
    /\ BinaryFrames[1].payload.len = 2048
    /\ BinaryFrames[2].payload.len = 2048
    /\ BinaryFrames[3].payload.len = 904

\* C6: every Binary chunk frame sent carries at most 2048 bytes, whatever chunk
\* size was configured and also when upload_file runs with its default chunk_size.
C6_ChunksAtMost2048 ==
    \A i \in DOMAIN wire : wire[i].op = OP_BINARY => wire[i].payload.len <= ChunkCap

\* C7: in the completion wait a received text that is exactly "DONE" ends the
\* session in Done, one that begins with "ERROR" fails it with that text, and any
\* other text, the empty one included, starts a further read_text.
C7_CompletionDispatch ==
    [][ /\ (pc = "check_done" /\ pc' # "check_done") =>
              /\ msg = DONE => pc' = "finally" /\ exc' = NoExc
              /\ (msg # DONE /\ StartsWith(msg, ERROR)) =>
                    pc' = "finally" /\ exc' = WebSocketError(msg)
              /\ (msg # DONE /\ ~StartsWith(msg, ERROR)) =>
                    pc' = "await_done" /\ exc' = NoExc /\ rt' = NewReadText(wire)
        /\ (pc = "finally" /\ pc' # "finally") => pc' = "end" /\ exc' = exc
      ]_vars

\* READY, then an empty text and DONE in the completion wait
C7_Witness ==
    /\ Done
    /\ returned = <<READY, <<>>, DONE>>

\* C8: a text beginning with "ERROR" that the client reads while it is in the
\* Transferring loop fails the session with that text, and no further chunk is sent.
C8_ErrorAbortsTransfer ==
    [][ (/\ pc = "drain"
         /\ inbox # <<>>
         /\ inbox' = Tail(inbox)
         /\ Head(inbox).op = OP_TEXT
         /\ StartsWith(Decode(Head(inbox).payload), ERROR))
        => (pc' = "finally" /\ exc' = WebSocketError(Decode(Head(inbox).payload)))
      ]_vars

\* C9: once an exception is raised in the session (an I/O error, an unexpected
\* reply, a Close frame or the end of the stream seen by the drain), control goes
\* straight to the cleanup: nothing is sent afterwards but at most the one Close
\* frame of close(), and no step of the session is taken again.
C9_FailureIsFinal ==
    [][ /\ exc # NoExc =>
              /\ exc' = exc
              /\ pc' \in {"finally", "end"}
              /\ \/ wire' = wire
                 \/ /\ pc = "finally" /\ pc' = "end"
                    /\ wire' = Append(wire, Frame(OP_CLOSE, <<>>))
        /\ (exc = NoExc /\ exc' # NoExc) => pc' = "finally" /\ wire' = wire
        /\ (pc = "drain" /\ inbox # <<>> /\ inbox' = Tail(inbox)
                /\ Head(inbox).op = OP_CLOSE)
              => exc' = WebSocketError(CONNECTION_CLOSED)
        /\ (pc = "drain" /\ inbox = <<>> /\ peer = "closed" /\ pc' # pc)
              => exc' = WebSocketError(SOCKET_CLOSED)
        /\ (pc = "check_ready" /\ msg # READY /\ pc' # pc) => exc' # NoExc
      ]_vars

\* the drain after a chunk met a Close frame with chunks still unsent; the session
\* failed having sent that one chunk and the Close frame of the cleanup
C9_Witness ==
    /\ Failed /\ exc = WebSocketError(CONNECTION_CLOSED)
    /\ Len(BinaryFrames) = 1 /\ fpos = sent /\ fpos < fileLen
    /\ Len(wire) = 3 /\ wire[3] = Frame(OP_CLOSE, <<>>)

\* the Pong frames answering the Ping frames among fs
PongsFor(fs) ==
    LET ps == SelectSeq(fs, LAMBDA f : f.op = OP_PING)
    IN [i \in 1..Len(ps) |-> Frame(OP_PONG, ps[i].payload)]

\* C10: during a read_text call every Ping received is answered, before anything
\* else is read, by one Pong with the same payload; when read_text returns, the
\* frames it sent are exactly these Pongs, in order, no Ping has ended the call,
\* and the value returned is the text of the Text frame that followed.
C10_PingAnsweredByPong ==
    /\ pc \in {"await_ready", "check_ready", "await_done", "check_done"} =>
          SubSeq(wire, rt.wire0 + 1, Len(wire)) = PongsFor(rt.frames)
    /\ pc \in {"check_ready", "check_done"} =>
          LET n == Len(rt.frames)
          IN /\ n >= 1
             /\ rt.frames[n].op = OP_TEXT
             /\ msg = Decode(rt.frames[n].payload)
             /\ \A i \in 1..(n - 1) : rt.frames[i].op \notin {OP_TEXT, OP_CLOSE}

\* a Ping x arrived before READY: the Pong x is on the wire when READY is returned
C10_Witness ==
    /\ pc = "check_ready"
    /\ msg = READY
    /\ rt.frames = <<Frame(OP_PING, <<120>>), Frame(OP_TEXT, READY)>>
    /\ Len(wire) = 2 /\ wire[2] = Frame(OP_PONG, <<120>>)

\* the values a progress callback is called with after the first k Binary sends
ProgressAfter(k) == <<SumLen(SubSeq(BinaryFrames, 1, k)), size>>

\* what the callbacks of a session with a progress callback have reported so far
ProgressFollowsSends ==
    /\ sent = SumLen(BinaryFrames)
    /\ caller = "upload_books" =>
          /\ Len(progress) = Len(BinaryFrames)
          /\ \A k \in DOMAIN progress :
                /\ progress[k] = ProgressAfter(k)
                /\ progress[k][1] <= size
                /\ k > 1 => progress[k][1] > progress[k - 1][1]
          /\ (pc \in {"await_done", "check_done"} /\ progress # <<>>) =>
                progress[Len(progress)][1] = size
    /\ pc = "drain" => BinaryFrames # <<>>

\* one iteration of the loop: the step that sends a Binary frame is taken at the
\* top of the loop, calls the callback and goes to the drain; the next send
\* follows only a drain that found nothing left to read
LoopStep ==
    /\ Len(BinaryFrames') > Len(BinaryFrames) =>
          /\ pc = "transfer" /\ pc' = "drain"
          /\ Len(BinaryFrames') = Len(BinaryFrames) + 1
          /\ caller = "upload_books" => progress' = Append(progress, <<sent', size>>)
    /\ progress' # progress => Len(BinaryFrames') > Len(BinaryFrames)
    /\ (pc = "drain" /\ pc' # "drain") =>
          \/ pc' = "transfer" /\ inbox = <<>> /\ wire' = wire /\ progress' = progress
          \/ pc' = "finally" /\ exc' # NoExc
    /\ (pc' = "transfer" /\ pc # "transfer") => pc \in {"check_ready", "drain"}

\* C27: each iteration of the transfer loop does one Binary send, then one
\* progress callback (sent, total), then one drain; the sent values are strictly
\* increasing, equal the payload bytes of the Binary frames sent so far, never
\* exceed total, and equal total at the last callback of a session that reaches
\* the completion wait.
C27_TransferLoopOrder == []ProgressFollowsSends /\ [][LoopStep]_vars

\* 5000 bytes in chunks of 2048 reported as 2048, 4096, 5000 before the wait
C27_Witness ==
    /\ pc = "await_done" /\ caller = "upload_books"
    /\ progress = <<<<2048, 5000>>, <<4096, 5000>>, <<5000, 5000>>>>
    /\ Len(BinaryFrames) = 3

----------------------------------------------------------------------------
(* The upload session with the device's view of it: SpecLate *)

\* the frames of the final chunk have all been written to the device
AllChunksWritten == pc \in Established /\ size > 0 /\ sent = size

\* this step is the device sending "DONE" as its second frame (the first was the
\* "READY" that let the transfer begin), after the final chunk was written to it
SendsDoneAfterLast ==
    /\ AllChunksWritten
    /\ devSent = 1
    /\ inbox' = Append(inbox, Frame(OP_TEXT, DONE))

\* the steps of the client and the device's close, which leave the device's
\* knowledge as it is
SessionOnly == UNCHANGED <<doneAfterLast, discoverVars, codecVars, clientVars, liveVars>>

late_device_send ==
    /\ device_send
    /\ doneAfterLast' = (doneAfterLast \/ SendsDoneAfterLast)
    /\ UNCHANGED <<discoverVars, codecVars, clientVars, liveVars>>

LateNext ==
    \/ connect /\ SessionOnly
    \/ getsize /\ SessionOnly
    \/ send_start /\ SessionOnly
    \/ await_ready /\ SessionOnly
    \/ check_ready /\ SessionOnly
    \/ transfer /\ SessionOnly
    \/ drain_messages /\ SessionOnly
    \/ await_done /\ SessionOnly
    \/ check_done /\ SessionOnly
    \/ close /\ SessionOnly
    \/ device_close /\ SessionOnly
    \/ late_device_send

SpecLate == Init /\ [][LateNext]_vars

\* the text "DONE" is in the list the last drain_messages call has built
DoneDrained == \E i \in DOMAIN messages : messages[i] = DONE

\* C28: a DONE the device sends after the final chunk was written to it leads the
\* session to Done whenever the session ends, also when the DONE is in the receive
\* buffer at the drain that follows the last chunk.
C28_LateDoneEndsDone == (doneAfterLast /\ pc = "end") => Done

\* the same, for the sessions whose last drain did not read the DONE
C28_LateDoneUndrained == (doneAfterLast /\ pc = "end" /\ ~DoneDrained) => Done

\* a DONE sent after the final chunk, read by the completion wait: Done
C28_UndrainedWitness ==
    /\ doneAfterLast /\ Done /\ ~DoneDrained
    /\ size = 5000 /\ returned = <<READY, DONE>>

----------------------------------------------------------------------------
(* The frame codec: _send_frame and _read_frame, byte for byte *)

\* frames written in one run of the codec
MaxCodecFrames == 2

\* a function on 1..n as a sequence
ToSeq(f) == SubSeq(f, 1, Len(f))

\* bit k of the byte a
Bit(a, k) == (a \div (2 ^ k)) % 2

\* a ^ b on bytes
Xor(a, b) ==
    LET x[k \in 0..8] ==
            IF k = 8 THEN 0
            ELSE (((Bit(a, k) + Bit(b, k)) % 2) * (2 ^ k)) + x[k + 1]
    IN x[0]

XorTable == [a \in 0..255 |-> [b \in 0..255 |-> Xor(a, b)]]

\* struct.pack('!H', v) for k = 2, struct.pack('!Q', v) for k = 8
RECURSIVE BE(_, _)
BE(v, k) == IF k = 0 THEN <<>> ELSE BE(v \div 256, k - 1) \o <<v % 256>>

\* struct.unpack('!H', bs)[0] and struct.unpack('!Q', bs)[0]
RECURSIVE FromBE(_)
FromBE(bs) ==
    IF bs = <<>> THEN 0
    ELSE FromBE(SubSeq(bs, 1, Len(bs) - 1)) * 256 + bs[Len(bs)]

\* _send_frame: the header that precedes the mask key
frame_header_inline_below_125(opcode, length) ==
    <<128 + (opcode % 16)>> \o
    (IF length < 125 THEN <<128 + length>>
     ELSE IF length <= 65535 THEN <<128 + 126>> \o BE(length, 2)
     ELSE <<128 + 127>> \o BE(length, 8))

frame_header(opcode, length) ==
    <<128 + (opcode % 16)>> \o
    (IF length <= 125 THEN <<128 + length>>
     ELSE IF length <= 65535 THEN <<128 + 126>> \o BE(length, 2)
     ELSE <<128 + 127>> \o BE(length, 8))

\* _send_frame and _read_frame: byte i (from 0) is xor-ed with mask[i % 4]
mask_payload(payload, mask) ==
    ToSeq([i \in 1..Len(payload) |-> XorTable[payload[i]][mask[((i - 1) % 4) + 1]]])

\* _send_frame: the bytes passed to sendall
send_frame_bytes(opcode, payload, mask) ==
    frame_header(opcode, Len(payload)) \o mask \o mask_payload(payload, mask)

\* _read_frame: bytes of extended length that follow the 7-bit length field
ext_len_no_16bit(len7) == IF len7 = 127 THEN 8 ELSE 0

ext_len(len7) == IF len7 = 126 THEN 2 ELSE IF len7 = 127 THEN 8 ELSE 0

\* _read_frame cannot go on with the bytes it has: the _recv_exact call of
\* the given stage wants more
Short(stage) == [status |-> "short", stage |-> stage, opcode |-> 0, payload |-> <<>>, used |-> 0]

\* _read_frame on the bytes buf that the socket can deliver: the frame and the
\* number of bytes consumed, or the stage at which the bytes run out
read_frame(buf) ==
    IF Len(buf) < 2 THEN Short("header")
    ELSE
      LET opcode == buf[1] % 16
          masked == buf[2] >= 128
          len7 == buf[2] % 128
          ext == ext_len(len7)
      IN IF Len(buf) < 2 + ext THEN Short("length")
         ELSE
           LET length == IF ext = 0 THEN len7 ELSE FromBE(SubSeq(buf, 3, 2 + ext))
               hdr == 2 + ext + (IF masked THEN 4 ELSE 0)
           IN IF Len(buf) < hdr THEN Short("mask")
              ELSE IF Len(buf) < hdr + length THEN Short("payload")
              ELSE
                LET raw == SubSeq(buf, hdr + 1, hdr + length)
                IN [status |-> "frame", stage |-> "done", opcode |-> opcode,
                    payload |-> IF masked
                                THEN mask_payload(raw, SubSeq(buf, hdr - 3, hdr))
                                ELSE raw,
                    used |-> hdr + length]

\* a payload of n bytes
Pattern(n) == ToSeq([i \in 1..n |-> (i * 7 + 250) % 256])

\* os.urandom(4): the mask keys tried
CodecMasks == { <<0, 0, 0, 0>>, <<255, 255, 255, 255>>, <<18, 52, 86, 120>> }

\* the opcodes tried
CodecOpcodes == {0, OP_TEXT, OP_BINARY, OP_CLOSE, OP_PING, OP_PONG}

\* the opcodes tried for the frames written after the first
FollowOpcodes == {OP_TEXT, OP_PING}

\* payload lengths tried with every opcode and mask, for any frame of a run
ShortLengths == {0, 1, 125, 126}
\* payload lengths tried for the first frame of a run, as Text and Binary
LongLengths == {65535, 65536}

\* the session is not running
SessionIdle ==
    /\ pc = "idle"
    /\ caller = "none"
    /\ chunk_size = 0
    /\ fileLen = 0
    /\ size = 0
    /\ sock = "None"
    /\ peer = "open"
    /\ inbox = <<>>
    /\ wire = <<>>
    /\ msg = <<>>
    /\ exc = NoExc
    /\ fpos = 0
    /\ sent = 0
    /\ progress = <<>>
    /\ messages = <<>>
    /\ closeCalls = 0
    /\ devSent = 0
    /\ rt = NewReadText(<<>>)
    /\ returned = <<>>

CodecInit == SessionIdle /\ CodecIdle /\ ClientIdle /\ LiveIdle /\ RestIdle

\* _send_frame(opcode, payload) with the mask key os.urandom returns
codec_send ==
    /\ Len(txlog) < MaxCodecFrames
    /\ \E opcode \in CodecOpcodes, mask \in CodecMasks,
          n \in ShortLengths \cup (IF txlog = <<>> THEN LongLengths ELSE {}) :
          /\ n \in LongLengths => opcode \in {OP_TEXT, OP_BINARY}
          /\ txlog # <<>> => opcode \in FollowOpcodes
          /\ (txlog # <<>> /\ Len(txlog[1].payload) \in LongLengths) =>
                (n <= 1 /\ opcode = OP_TEXT /\ mask = txlog[1].mask)
          /\ tx' = tx \o send_frame_bytes(opcode, Pattern(n), mask)
          /\ txlog' = Append(txlog, [opcode |-> opcode, payload |-> Pattern(n), mask |-> mask])
    /\ UNCHANGED <<rpos, rxd>>
    /\ UNCHANGED <<restVars, sessionVars, clientVars, liveVars>>

\* _read_frame on the bytes written and not yet read
codec_read ==
    /\ LET r == read_frame(SubSeq(tx, rpos + 1, Len(tx)))
       IN /\ r.status = "frame"
          /\ rxd' = Append(rxd, [opcode |-> r.opcode, payload |-> r.payload])
          /\ rpos' = rpos + r.used
    /\ UNCHANGED <<tx, txlog>>
    /\ UNCHANGED <<restVars, sessionVars, clientVars, liveVars>>

CodecNext ==
    \/ codec_send
    \/ codec_read

SpecCodec == CodecInit /\ [][CodecNext]_vars

\* C19: the encoder writes the shortest length field that holds the payload
\* length L: L <= 125 in the 7-bit field, 126 <= L <= 65535 as the marker 126 and
\* 16 bits big-endian, L >= 65536 as the marker 127 and 64 bits big-endian.
C19_LengthFieldSelection ==
    txlog # <<>> =>
        LET L == Len(txlog[1].payload)
        IN /\ tx[1] = 128 + txlog[1].opcode
           /\ L <= 125 =>
                 /\ tx[2] = 128 + L
                 /\ SubSeq(tx, 3, 6) = txlog[1].mask
                 /\ Len(txlog) = 1 => Len(tx) = 6 + L
           /\ (126 <= L /\ L <= 65535) =>
                 /\ tx[2] = 128 + 126
                 /\ tx[3] * 256 + tx[4] = L
                 /\ SubSeq(tx, 5, 8) = txlog[1].mask
                 /\ Len(txlog) = 1 => Len(tx) = 8 + L
           /\ L >= 65536 =>
                 /\ tx[2] = 128 + 127
                 /\ SubSeq(tx, 3, 6) = <<0, 0, 0, 0>>
                 /\ ((tx[7] * 256 + tx[8]) * 256 + tx[9]) * 256 + tx[10] = L
                 /\ SubSeq(tx, 11, 14) = txlog[1].mask
                 /\ Len(txlog) = 1 => Len(tx) = 14 + L

\* a Binary frame of 126 bytes, the shortest that needs the 16-bit field:
\* marker 126 and the length 00 7E
C19_Witness ==
    /\ Len(txlog) = 1
    /\ txlog[1].opcode = OP_BINARY
    /\ Len(txlog[1].payload) = 126
    /\ SubSeq(tx, 1, 4) = <<130, 254, 0, 126>>

\* number of bytes _send_frame writes for a payload of n bytes
FrameBytes(n) == (IF n <= 125 THEN 6 ELSE IF n <= 65535 THEN 8 ELSE 14) + n

RECURSIVE BytesOfFirst(_)
BytesOfFirst(k) ==
    IF k = 0 THEN 0 ELSE BytesOfFirst(k - 1) + FrameBytes(Len(txlog[k].payload))

\* C20: _read_frame applied to what _send_frame wrote returns the frames written,
\* in order, each with its opcode and its payload, whatever the opcode, the
\* payload and the mask key; each call consumes the bytes of one frame and no
\* more, so that the frame written next is read next.
C20_RoundTrip ==
    /\ Len(rxd) <= Len(txlog)
    /\ \A i \in 1..Len(rxd) :
          /\ rxd[i].opcode = txlog[i].opcode
          /\ rxd[i].payload = txlog[i].payload
    /\ rpos = BytesOfFirst(Len(rxd))
    /\ Len(rxd) = Len(txlog) => rpos = Len(tx)
    /\ Len(rxd) < Len(txlog) => read_frame(SubSeq(tx, rpos + 1, Len(tx))).status = "frame"

\* a Binary frame of 126 bytes and the Ping frame of 125 bytes written after it,
\* under different mask keys, both read back
C20_Witness ==
    /\ Len(rxd) = 2
    /\ rxd[1] = [opcode |-> OP_BINARY, payload |-> Pattern(126)]
    /\ rxd[2] = [opcode |-> OP_PING, payload |-> Pattern(125)]
    /\ txlog[1].mask = <<18, 52, 86, 120>>
    /\ txlog[2].mask = <<255, 255, 255, 255>>
    /\ rpos = Len(tx)

----------------------------------------------------------------------------
(* A WebSocketClient object: connect, send_text, send_binary, read_text,
   drain_messages and close called one after another by any caller, over a
   socket whose peer sends its bytes segment by segment.  A client object is
   connected at most once and not after close(), as upload_file uses it. *)

\* method calls made on one client object
MaxCalls == 4

\* "\r\n"
CRLF == <<13, 10>>
\* "\r\n\r\n"
CRLFCRLF == <<13, 10, 13, 10>>
\* "bye"
BYE == <<98, 121, 101>>
\* "hi"
HI == <<104, 105>>
\* "Retry-After: 101 "
RETRY_101 == <<82, 101, 116, 114, 121, 45, 65, 102, 116, 101, 114, 58, 32, 49, 48, 49, 32>>

\* the upgrade request of connect(), for host "h", port 1 and the key of sixteen zero bytes
REQUEST ==
    <<71, 69, 84, 32, 47, 32, 72, 84, 84, 80, 47, 49, 46, 49>> \o CRLF \o
    <<72, 111, 115, 116, 58, 32, 104, 58, 49>> \o CRLF \o
    <<85, 112, 103, 114, 97, 100, 101, 58, 32, 119, 101, 98, 115, 111, 99, 107, 101, 116>> \o CRLF \o
    <<67, 111, 110, 110, 101, 99, 116, 105, 111, 110, 58, 32, 85, 112, 103, 114, 97, 100, 101>> \o CRLF \o
    <<83, 101, 99, 45, 87, 101, 98, 83, 111, 99, 107, 101, 116, 45, 75, 101, 121, 58, 32,
      65, 65, 65, 65, 65, 65, 65, 65, 65, 65, 65, 65, 65, 65, 65, 65, 65, 65, 65, 65, 65, 65,
      61, 61>> \o CRLF \o
    <<83, 101, 99, 45, 87, 101, 98, 83, 111, 99, 107, 101, 116, 45, 86, 101, 114, 115, 105,
      111, 110, 58, 32, 49, 51>> \o CRLF \o CRLF

\* socket.timeout, raised by a recv that waited self.timeout seconds
SocketTimeout == [type |-> "timeout", text |-> <<>>]

\* the whole response taken for its first line
first_line_whole(data) == data

\* data.split(b'\r\n', 1)[0]
first_line(data) ==
    IF \E i \in 1..(Len(data) - 1) : SubSeq(data, i, i + 1) = CRLF
    THEN LET i == CHOOSE i \in 1..(Len(data) - 1) :
                    /\ SubSeq(data, i, i + 1) = CRLF
                    /\ \A j \in 1..(i - 1) : SubSeq(data, j, j + 1) # CRLF
         IN SubSeq(data, 1, i - 1)
    ELSE data

\* sock.recv(n) when avail bytes are waiting: the number of bytes returned
recv_len(n, avail) == Min(n, avail)

\* read_text: code and reason of a Close frame's payload, as passed to _log
close_status(payload) ==
    IF Len(payload) >= 2
    THEN [code |-> FromBE(SubSeq(payload, 1, 2)),
          reason |-> Decode(SubSeq(payload, 3, Len(payload)))]
    ELSE [code |-> -1, reason |-> <<>>]

\* a frame as the device writes it: unmasked, payload of at most 125 bytes
peer_frame(op, payload) == <<128 + op, Len(payload)>> \o payload

\* an HTTP response made of its status line only
response(line) == line \o CRLFCRLF

\* os.urandom(4): the mask keys of the frames the client writes
ClientMasks == { <<18, 52, 86, 120>>, <<0, 0, 0, 0>> }

\* what the peer sends, segment by segment, from the moment the connection is made
PeerScripts ==
    { <<response(STATUS_101), peer_frame(OP_TEXT, READY)>>,
      <<response(STATUS_101) \o peer_frame(OP_TEXT, READY)>>,
      <<STATUS_101 \o CRLF \o <<13>>, <<10>>, peer_frame(OP_PONG, <<>>) \o peer_frame(OP_TEXT, HI)>>,
      <<STATUS_101 \o CRLF>>,
      <<STATUS_101>>,
      <<response(STATUS_404)>>,
      <<STATUS_404 \o CRLF>>,
      <<STATUS_404 \o CRLF \o RETRY_101 \o CRLFCRLF>>,
      <<>>,
      <<response(STATUS_101), <<128 + OP_TEXT>>, <<2>> \o HI>>,
      <<response(STATUS_101), <<128 + OP_TEXT, 5, 82>>, <<69, 65, 68, 89>> >>,
      <<response(STATUS_101), peer_frame(OP_CLOSE, <<3, 232>> \o BYE)>>,
      <<response(STATUS_101), peer_frame(OP_CLOSE, <<>>)>>,
      <<response(STATUS_101), peer_frame(OP_PING, <<120>>), peer_frame(OP_TEXT, DONE)>>,
      <<response(STATUS_101), peer_frame(OP_BINARY, <<120>>) \o peer_frame(OP_TEXT, HI)>>,
      \* a Continuation, a Binary and a Pong frame before two Text frames
      <<response(STATUS_101),
        peer_frame(OP_CONTINUATION, <<120>>) \o peer_frame(OP_BINARY, <<120>>)
            \o peer_frame(OP_PONG, <<>>) \o peer_frame(OP_TEXT, HI)
            \o peer_frame(OP_TEXT, READY)>>,
      \* complete frames in one segment: Text, Ping, Pong, Text
      <<response(STATUS_101),
        peer_frame(OP_TEXT, READY) \o peer_frame(OP_PING, <<120>>)
            \o peer_frame(OP_PONG, <<>>) \o peer_frame(OP_TEXT, HI)>>,
      \* a Close frame between two Text frames
      <<response(STATUS_101),
        peer_frame(OP_TEXT, HI) \o peer_frame(OP_CLOSE, <<>>) \o peer_frame(OP_TEXT, READY)>>,
      \* a Text frame with a 16-bit length, cut inside the length
      <<response(STATUS_101), <<128 + OP_TEXT, 126, 0>>, <<2>> \o HI>>,
      \* a masked Text frame, cut inside the mask key
      <<response(STATUS_101), <<128 + OP_TEXT, 128 + 2, 1, 2>>,
        <<3, 4>> \o mask_payload(HI, <<1, 2, 3, 4>>)>>,
      \* a Text frame with no payload
      <<response(STATUS_101), peer_frame(OP_TEXT, <<>>)>> }

ClientInit ==
    /\ SessionIdle
    /\ CodecIdle
    /\ csock = "None"
    /\ out = <<>>
    /\ inb = <<>>
    /\ script \in PeerScripts
    /\ pend = "open"
    /\ call = NoCall
    /\ last = NoResult
    /\ ncalls = 0
    /\ connects = 0
    /\ ncloses = 0
    /\ oscloses = 0
    /\ failedAt = 0
    /\ LiveIdle
    /\ RestIdle

\* a method call starts
NewCall(op, arg) == [NoCall EXCEPT !.op = op, !.data = arg, !.sock0 = csock]

\* the caller is ready to make another call
CanCall == call.op = "none" /\ ncalls < MaxCalls

\* a failed write, or the end of the stream met by a read
IOFailure(e) == e = OSError \/ e = WebSocketError(SOCKET_CLOSED)

\* the call c ends: normally (status "ok") with a value, or by the exception e
\* (status "raised"); s1 is self.sock at that moment
End(c, status, e, value, s1) ==
    /\ last' = [op |-> c.op, status |-> status, exc |-> e, value |-> value, io |-> c.io,
                writes |-> c.writes, sock0 |-> c.sock0, sock1 |-> s1, frame |-> c.frame,
                data |-> c.data, sendFailed |-> c.sendFailed]
    /\ call' = NoCall
    /\ ncalls' = ncalls + 1
    /\ failedAt' = IF failedAt = 0 /\ IOFailure(e) THEN ncalls + 1 ELSE failedAt

\* the call goes on as c
Go(c) == call' = c /\ UNCHANGED <<last, ncalls, failedAt>>

\* connect(): create_connection and sendall of the request
api_connect ==
    /\ CanCall
    /\ connects = 0
    /\ ncloses = 0
    /\ connects' = 1
    /\ \/ \* create_connection raises: self.sock is not assigned
          /\ End([NewCall("connect", <<>>) EXCEPT !.io = 1], "raised", OSError, <<>>, csock)
          /\ UNCHANGED <<csock, out>>
       \/ \* sendall raises
          /\ csock' = "open"
          /\ End([NewCall("connect", <<>>) EXCEPT !.io = 2], "raised", OSError, <<>>, "open")
          /\ UNCHANGED out
       \/ /\ csock' = "open"
          /\ out' = Append(out, REQUEST)
          /\ Go([NewCall("connect", <<>>) EXCEPT !.io = 2, !.writes = <<REQUEST>>])
    /\ UNCHANGED <<inb, script, pend, ncloses, oscloses>>

\* connect(): one recv(1024) of _read_http_response and, at the end of its loop,
\* the test of the first line
connect_recv ==
    /\ call.op = "connect"
    /\ inb # <<>> \/ pend = "closed"
    /\ LET k == recv_len(1024, Len(inb))
           data == call.data \o SubSeq(inb, 1, k)
           c == [call EXCEPT !.data = data, !.io = @ + 1]
       IN /\ inb' = SubSeq(inb, k + 1, Len(inb))
          /\ IF k > 0 /\ ~Contains(data, CRLFCRLF)
             THEN Go(c)
             ELSE IF handshake_ok(first_line(data))
                  THEN End(c, "ok", NoExc, <<>>, csock)
                  ELSE End(c, "raised",
                           WebSocketError(HANDSHAKE_FAILED \o Decode(first_line(data))),
                           <<>>, csock)
    /\ UNCHANGED <<csock, out, script, pend, connects, ncloses, oscloses>>

\* connect(): recv waits self.timeout seconds for bytes that do not come
connect_timeout ==
    /\ call.op = "connect"
    /\ inb = <<>>
    /\ pend = "open"
    /\ End([call EXCEPT !.io = @ + 1], "raised", SocketTimeout, <<>>, csock)
    /\ UNCHANGED <<csock, out, inb, script, pend, connects, ncloses, oscloses>>

\* _send_frame and _read_frame: "if self.sock is None"
not_connected_never(s) == FALSE

not_connected(s) == s = "None"

\* close(): "if not self.sock: return"
close_guard_absent(s) == FALSE

close_guard(s) == s = "None"

\* close(): "except Exception: pass" around the send of the Close frame
close_swallows_nothing(e) == FALSE

close_swallows(e) == TRUE

\* send_text / send_binary: one call of _send_frame(opcode, payload)
send_call(m, opcode, payload) ==
    /\ CanCall
    /\ LET c == NewCall(m, payload)
       IN IF not_connected(csock)
          THEN /\ End(c, "raised", WebSocketError(SOCKET_NOT_CONNECTED), <<>>, csock)
               /\ UNCHANGED out
          ELSE \/ \E mask \in ClientMasks :
                     LET bytes == send_frame_bytes(opcode, payload, mask)
                     IN /\ out' = Append(out, bytes)
                        /\ End([c EXCEPT !.io = 1, !.writes = <<bytes>>], "ok", NoExc, <<>>, csock)
               \/ \* sendall raises
                  /\ End([c EXCEPT !.io = 1], "raised", OSError, <<>>, csock)
                  /\ UNCHANGED out
    /\ UNCHANGED <<csock, inb, script, pend, connects, ncloses, oscloses>>

\* send_text(text)
api_send_text == send_call("send_text", OP_TEXT, Encode(HI))

\* send_binary(payload)
api_send_binary == send_call("send_binary", OP_BINARY, <<0, 255>>)

\* close()
api_close ==
    /\ CanCall
    /\ ncloses' = ncloses + 1
    /\ LET c == NewCall("close", <<>>)
       IN IF close_guard(csock)
          THEN /\ End(c, "ok", NoExc, <<>>, csock)
               /\ UNCHANGED <<csock, out, oscloses>>
          ELSE IF not_connected(csock)
          THEN \* _send_frame raises before any write
               IF close_swallows(WebSocketError(SOCKET_NOT_CONNECTED))
               THEN /\ csock' = "None"
                    /\ oscloses' = oscloses + 1
                    /\ End([c EXCEPT !.io = 1, !.sendFailed = TRUE], "ok", NoExc, <<>>, "None")
                    /\ UNCHANGED out
               ELSE /\ End([c EXCEPT !.sendFailed = TRUE], "raised",
                           WebSocketError(SOCKET_NOT_CONNECTED), <<>>, csock)
                    /\ UNCHANGED <<csock, out, oscloses>>
          ELSE \/ \E mask \in ClientMasks :
                     LET bytes == send_frame_bytes(OP_CLOSE, <<>>, mask)
                     IN /\ out' = Append(out, bytes)
                        /\ csock' = "None"
                        /\ oscloses' = oscloses + 1
                        /\ End([c EXCEPT !.io = 2, !.writes = <<bytes>>], "ok", NoExc, <<>>, "None")
               \/ \* sendall raises
                  IF close_swallows(OSError)
                  THEN /\ csock' = "None"
                       /\ oscloses' = oscloses + 1
                       /\ End([c EXCEPT !.io = 2, !.sendFailed = TRUE], "ok", NoExc, <<>>, "None")
                       /\ UNCHANGED out
                  ELSE /\ End([c EXCEPT !.io = 1, !.sendFailed = TRUE], "raised", OSError, <<>>, csock)
                       /\ UNCHANGED <<csock, out, oscloses>>
    /\ UNCHANGED <<inb, script, pend, connects>>

\* read_text() is called
api_read_text ==
    /\ CanCall
    /\ Go(NewCall("read_text", <<>>))
    /\ UNCHANGED <<csock, out, inb, script, pend, connects, ncloses, oscloses>>

\* read_text(): one _read_frame and what the loop does with the frame
read_text_step ==
    /\ call.op = "read_text"
    /\ IF not_connected(csock)
       THEN /\ End(call, "raised", WebSocketError(SOCKET_NOT_CONNECTED), <<>>, csock)
            /\ UNCHANGED <<out, inb>>
       ELSE
         LET r == read_frame(inb)
             f == Frame(r.opcode, r.payload)
             d == read_text_dispatch(f)
             c == [call EXCEPT !.n = @ + 1, !.io = @ + 1, !.frame = f, !.blocked = FALSE]
         IN IF r.status = "short"
            THEN \* recv waits for the rest of the frame
                 /\ ~call.blocked
                 /\ Go([call EXCEPT !.blocked = TRUE, !.io = @ + 1])
                 /\ UNCHANGED <<out, inb>>
            ELSE /\ inb' = SubSeq(inb, r.used + 1, Len(inb))
                 /\ IF d.do = "raise" THEN End(c, "raised", d.exc, <<>>, csock) /\ UNCHANGED out
                    ELSE IF d.do = "return" THEN End(c, "ok", NoExc, d.text, csock) /\ UNCHANGED out
                    ELSE IF d.do = "continue" THEN Go(c) /\ UNCHANGED out
                    ELSE \/ \E mask \in ClientMasks :
                               LET bytes == send_frame_bytes(OP_PONG, d.pong, mask)
                               IN /\ out' = Append(out, bytes)
                                  /\ Go([c EXCEPT !.io = @ + 1, !.writes = Append(@, bytes)])
                         \/ \* sendall of the Pong raises
                            /\ End([c EXCEPT !.io = @ + 1], "raised", OSError, <<>>, csock)
                            /\ UNCHANGED out
    /\ UNCHANGED <<csock, script, pend, connects, ncloses, oscloses>>

\* read_text(): the deadline has passed when the loop comes round again
read_text_deadline ==
    /\ call.op = "read_text"
    /\ ~call.blocked
    /\ call.n > 0
    /\ End(call, "raised", WebSocketError(TIMED_OUT), <<>>, csock)
    /\ UNCHANGED <<csock, out, inb, script, pend, connects, ncloses, oscloses>>

\* drain_messages() is called
api_drain_messages ==
    /\ CanCall
    /\ IF csock = "None"
       THEN End(NewCall("drain_messages", <<>>), "ok", NoExc, <<>>, csock)
       ELSE Go(NewCall("drain_messages", <<>>))
    /\ UNCHANGED <<csock, out, inb, script, pend, connects, ncloses, oscloses>>

\* select.select([sock], [], [], 0): the socket has bytes or its stream has ended
readable == inb # <<>> \/ pend = "closed"

\* drain_messages(): one round of its loop
drain_step ==
    /\ call.op = "drain_messages"
    /\ IF ~call.blocked /\ ~readable
       THEN /\ End([call EXCEPT !.io = @ + 1], "ok", NoExc, call.msgs, csock)
            /\ UNCHANGED inb
       ELSE
         LET r == read_frame(inb)
             f == Frame(r.opcode, r.payload)
             d == drain_dispatch(f)
             c == [call EXCEPT !.n = @ + 1, !.io = @ + 2, !.frame = f, !.blocked = FALSE]
         IN IF r.status = "short"
            THEN \* recv waits for the rest of the frame
                 /\ ~call.blocked
                 /\ Go([call EXCEPT !.blocked = TRUE, !.io = @ + 2])
                 /\ UNCHANGED inb
            ELSE /\ inb' = SubSeq(inb, r.used + 1, Len(inb))
                 /\ IF d.do = "raise"
                    THEN End(c, "raised", WebSocketError(CONNECTION_CLOSED), <<>>, csock)
                    ELSE IF d.do = "append"
                    THEN Go([c EXCEPT !.msgs = Append(@, d.text)])
                    ELSE Go(c)
    /\ UNCHANGED <<csock, out, script, pend, connects, ncloses, oscloses>>

\* _recv_exact that takes recv's b'' for the end of a frame: the call gets a Text
\* frame with no payload
recv_eof_returns_empty ==
    /\ call.op \in {"read_text", "drain_messages"}
    /\ call.blocked
    /\ pend = "closed"
    /\ read_frame(inb).status = "short"
    /\ inb' = <<>>
    /\ End([call EXCEPT !.data = inb, !.frame = Frame(OP_TEXT, <<>>)], "ok", NoExc, <<>>, csock)
    /\ UNCHANGED <<csock, out, script, pend, connects, ncloses, oscloses>>

\* _recv_exact: recv returns b'' because the peer has closed; the bytes of the
\* frame read so far (kept in data) are dropped
recv_eof ==
    /\ call.op \in {"read_text", "drain_messages"}
    /\ call.blocked
    /\ pend = "closed"
    /\ read_frame(inb).status = "short"
    /\ inb' = <<>>
    /\ End([call EXCEPT !.data = inb], "raised", WebSocketError(SOCKET_CLOSED), <<>>, csock)
    /\ UNCHANGED <<csock, out, script, pend, connects, ncloses, oscloses>>

\* _recv_exact: recv waits self.timeout seconds for bytes that do not come
recv_timeout ==
    /\ call.op \in {"read_text", "drain_messages"}
    /\ call.blocked
    /\ pend = "open"
    /\ read_frame(inb).status = "short"
    /\ inb' = <<>>
    /\ End(call, "raised", SocketTimeout, <<>>, csock)
    /\ UNCHANGED <<csock, out, script, pend, connects, ncloses, oscloses>>

\* the peer's next segment arrives
peer_deliver ==
    /\ csock = "open"
    /\ pend = "open"
    /\ script # <<>>
    /\ inb' = inb \o Head(script)
    /\ script' = Tail(script)
    /\ UNCHANGED <<csock, out, pend, call, last, ncalls, connects, ncloses, oscloses, failedAt>>

\* the peer closes its end
peer_close ==
    /\ csock = "open"
    /\ pend = "open"
    /\ pend' = "closed"
    /\ script' = <<>>
    /\ UNCHANGED <<csock, out, inb, call, last, ncalls, connects, ncloses, oscloses, failedAt>>

ClientNext ==
    \/ api_connect /\ UNCHANGED <<restVars, sessionVars, codecVars, liveVars>>
    \/ connect_recv /\ UNCHANGED <<restVars, sessionVars, codecVars, liveVars>>
    \/ connect_timeout /\ UNCHANGED <<restVars, sessionVars, codecVars, liveVars>>
    \/ api_send_text /\ UNCHANGED <<restVars, sessionVars, codecVars, liveVars>>
    \/ api_send_binary /\ UNCHANGED <<restVars, sessionVars, codecVars, liveVars>>
    \/ api_close /\ UNCHANGED <<restVars, sessionVars, codecVars, liveVars>>
    \/ api_read_text /\ UNCHANGED <<restVars, sessionVars, codecVars, liveVars>>
    \/ read_text_step /\ UNCHANGED <<restVars, sessionVars, codecVars, liveVars>>
    \/ read_text_deadline /\ UNCHANGED <<restVars, sessionVars, codecVars, liveVars>>
    \/ api_drain_messages /\ UNCHANGED <<restVars, sessionVars, codecVars, liveVars>>
    \/ drain_step /\ UNCHANGED <<restVars, sessionVars, codecVars, liveVars>>
    \/ recv_eof /\ UNCHANGED <<restVars, sessionVars, codecVars, liveVars>>
    \/ recv_timeout /\ UNCHANGED <<restVars, sessionVars, codecVars, liveVars>>
    \/ peer_deliver /\ UNCHANGED <<restVars, sessionVars, codecVars, liveVars>>
    \/ peer_close /\ UNCHANGED <<restVars, sessionVars, codecVars, liveVars>>

SpecClient == ClientInit /\ [][ClientNext]_vars

----------------------------------------------------------------------------
(* Claims about the client object *)

\* the exception e carries the code and the reason: as attributes, or in its text
Carries(e, code, reason) ==
    \/ /\ "code" \in DOMAIN e
       /\ "reason" \in DOMAIN e
       /\ e.code = code
       /\ e.reason = reason
    \/ /\ Contains(e.text, Str(code))
       /\ Contains(e.text, reason)

\* C11: a read_text or drain_messages call that reads a Close frame whose payload
\* is a 2-byte big-endian status code and a UTF-8 reason ends by an exception that
\* carries that code and that reason.
C11_CloseCarriesCodeAndReason ==
    (/\ last.op \in {"read_text", "drain_messages"}
     /\ last.frame.op = OP_CLOSE
     /\ Len(last.frame.payload) >= 2)
    => /\ last.status = "raised"
       /\ Carries(last.exc, close_status(last.frame.payload).code,
                  close_status(last.frame.payload).reason)

\* C13: a drain_messages call never waits for bytes that have not arrived.
C13_DrainNeverWaits ==
    ~(call.op = "drain_messages" /\ call.blocked)

\* the byte string w is exactly one frame, of the given opcode and payload
OneFrame(w, opcode, payload) ==
    LET r == read_frame(w)
    IN /\ r.status = "frame"
       /\ r.used = Len(w)
       /\ r.opcode = opcode
       /\ r.payload = payload
       /\ w[2] >= 128

\* a send_text or send_binary call is made in this step
SendStep ==
    /\ call.op = "none"
    /\ ncalls' = ncalls + 1
    /\ last'.op \in {"send_text", "send_binary"}

\* C14: send_text and send_binary on a client without a connection (self.sock is
\* None: before connect, after close) raise 'Socket not connected' and write
\* nothing; on a client with a connection a call that returns has written one
\* frame, of opcode 1 for send_text and 2 for send_binary, with the payload given.
C14_SendNeedsConnection ==
    [][SendStep =>
        /\ csock = "None" =>
              /\ last'.status = "raised"
              /\ last'.exc = WebSocketError(SOCKET_NOT_CONNECTED)
              /\ last'.io = 0
              /\ out' = out
        /\ csock # "None" =>
              \/ /\ last'.status = "ok"
                 /\ Len(out') = Len(out) + 1
                 /\ SubSeq(out', 1, Len(out)) = out
                 /\ OneFrame(out'[Len(out')],
                             IF last'.op = "send_text" THEN OP_TEXT ELSE OP_BINARY,
                             last'.data)
              \/ /\ last'.status = "raised"
                 /\ last'.exc = OSError
                 /\ out' = out
    ]_vars

\* send_text after connect() and close(): refused, nothing written
C14_Witness ==
    /\ last.op = "send_text"
    /\ last.sock0 = "None"
    /\ last.status = "raised"
    /\ connects = 1
    /\ ncloses = 1
    /\ Len(out) = 2

\* the Close frames among the byte strings written
CloseFramesSent ==
    {i \in DOMAIN out : out[i] # REQUEST /\ read_frame(out[i]).opcode = OP_CLOSE}

\* C15: over the close() calls made on a client, at most one Close frame is sent,
\* with an empty payload, and the socket is closed at most once; a close() after
\* the first sends nothing, touches no socket and raises nothing; after any
\* close() self.sock is None.
C15_CloseIdempotent ==
    /\ Cardinality(CloseFramesSent) <= 1
    /\ \A i \in CloseFramesSent : OneFrame(out[i], OP_CLOSE, <<>>)
    /\ oscloses <= 1
    /\ ncloses >= 1 => csock = "None"
    /\ last.op = "close" => (last.status = "ok" /\ last.sock1 = "None")
    /\ (last.op = "close" /\ ncloses >= 2) => (last.writes = <<>> /\ last.io = 0)

\* two close() calls on a connected client: one Close frame, one socket close
C15_Witness ==
    /\ ncloses = 2
    /\ last.op = "close"
    /\ Cardinality(CloseFramesSent) = 1
    /\ oscloses = 1

\* C16: a close() whose send of the Close frame fails returns normally, has closed
\* the socket and leaves self.sock None.
C16_CloseSwallowsSendFailure ==
    (last.op = "close" /\ last.sendFailed)
    => /\ last.status = "ok"
       /\ last.sock1 = "None"
       /\ last.writes = <<>>
       /\ oscloses = 1
       /\ csock = "None"

\* close() on a connected client whose Close frame could not be written
C16_Witness ==
    /\ last.op = "close"
    /\ last.sendFailed
    /\ last.sock0 = "open"
    /\ last.status = "ok"
    /\ CloseFramesSent = {}

\* the bytes of data before its first CR LF, or all of data
RECURSIVE UpToCRLF(_)
UpToCRLF(data) ==
    IF Len(data) < 2 THEN data
    ELSE IF data[1] = 13 /\ data[2] = 10 THEN <<>>
    ELSE <<data[1]>> \o UpToCRLF(Tail(data))

\* " 101 " occurs in line
Has101(line) ==
    \E i \in 1..(Len(line) - 4) :
        /\ line[i] = 32 /\ line[i + 1] = 49 /\ line[i + 2] = 48
        /\ line[i + 3] = 49 /\ line[i + 4] = 32

\* connect() has read the response to its end: the terminator or the end of the stream
ConnectRead == last.op = "connect" /\ last.exc \notin {OSError, SocketTimeout}

\* C17: a connect() that has read the response to its end returns normally if and
\* only if the first line of the bytes read contains " 101 "; otherwise (another
\* status, a stream that ends before the terminator or before any byte) it
\* raises 'Handshake failed: ' and that line; the request is all connect() writes.
C17_HandshakeNeeds101 ==
    /\ ConnectRead =>
          /\ last.status = "ok" <=> Has101(UpToCRLF(last.data))
          /\ last.status # "ok" =>
                last.exc = WebSocketError(HANDSHAKE_FAILED \o UpToCRLF(last.data))
          /\ last.writes = <<REQUEST>>
    /\ call.op = "connect" => out = <<REQUEST>>
    /\ last.op = "connect" => last.writes \in {<<>>, <<REQUEST>>}

\* the peer closes without sending a byte: the handshake fails on the empty line
C17_Witness ==
    /\ ConnectRead
    /\ last.data = <<>>
    /\ last.status = "raised"
    /\ last.exc = WebSocketError(HANDSHAKE_FAILED)
    /\ out = <<REQUEST>>

\* C18: once a call has ended by an I/O failure (a failed write, the end of the
\* stream during a frame read), every later send_text, send_binary and read_text
\* on the client raises without attempting any socket I/O.
C18_FailureDestroysConnection ==
    (/\ failedAt > 0
     /\ ncalls > failedAt
     /\ last.op \in {"send_text", "send_binary", "read_text"})
    => (last.status = "raised" /\ last.io = 0)

\* this step of the call of method op takes one whole frame from the socket
Takes(op) ==
    /\ call.op = op
    /\ csock = "open"
    /\ call' # call
    /\ LET r == read_frame(inb)
       IN r.status = "frame" /\ inb' = SubSeq(inb, r.used + 1, Len(inb))

\* the frame such a step takes
TakenFrame == LET r == read_frame(inb) IN Frame(r.opcode, r.payload)

\* a step of read_text: a Text frame ends the call with its decoded payload; a
\* frame that is not Text, Close or Ping leaves the call waiting and writes
\* nothing; the call returns by no other step
ReadTextStep ==
    /\ Takes("read_text") =>
          /\ TakenFrame.op = OP_TEXT =>
                /\ call' = NoCall
                /\ last'.op = "read_text" /\ last'.status = "ok"
                /\ last'.value = Decode(TakenFrame.payload)
          /\ TakenFrame.op \notin {OP_TEXT, OP_CLOSE, OP_PING} =>
                /\ call'.op = "read_text"
                /\ call'.writes = call.writes
                /\ out' = out /\ last' = last
    /\ (call.op = "read_text" /\ call' = NoCall /\ last'.status = "ok") =>
          Takes("read_text") /\ TakenFrame.op = OP_TEXT

\* C24: read_text returns the payload of the first Text frame in arrival order;
\* Pong frames and frames of any other opcode that is not Text, Close or Ping
\* (Binary, Continuation) before it are taken and skipped, without ending the
\* wait and without sending anything.
C24_ReadTextReturnsFirstText == [][ReadTextStep]_vars

\* a Continuation, a Binary and a Pong frame were skipped; "hi" is returned, the
\* Text frame behind it is still in the socket, nothing but the request was sent
C24_Witness ==
    /\ last.op = "read_text" /\ last.status = "ok"
    /\ last.value = HI /\ last.io = 4
    /\ last.writes = <<>> /\ out = <<REQUEST>>
    /\ inb = peer_frame(OP_TEXT, READY)

\* a step of drain_messages: a Text frame adds its decoded payload to the list, a
\* Close frame raises, any other frame changes nothing; nothing is written; the
\* call returns its list when nothing is left to read
DrainStep ==
    /\ Takes("drain_messages") =>
          /\ out' = out
          /\ TakenFrame.op = OP_TEXT =>
                /\ call'.op = "drain_messages"
                /\ call'.msgs = Append(call.msgs, Decode(TakenFrame.payload))
          /\ TakenFrame.op = OP_CLOSE =>
                /\ call' = NoCall
                /\ last'.op = "drain_messages" /\ last'.status = "raised"
                /\ last'.exc = WebSocketError(CONNECTION_CLOSED)
          /\ TakenFrame.op \notin {OP_TEXT, OP_CLOSE} =>
                /\ call'.op = "drain_messages"
                /\ call'.msgs = call.msgs
    /\ (call.op = "drain_messages" /\ call' = NoCall /\ last'.status = "ok") =>
          /\ inb = <<>> /\ inb' = <<>>
          /\ last'.value = call.msgs
          /\ out' = out

\* C25: drain_messages, given complete frames in the receive buffer, takes all of
\* them and returns the payloads of the Text frames in arrival order; Ping and
\* Pong frames are ignored and no Pong is sent; a Close frame among them makes it
\* raise 'Connection closed' instead of returning.
C25_DrainReturnsTexts == [][DrainStep]_vars

\* Text READY, Ping, Pong, Text "hi" were waiting: the call has returned both
\* texts in order and has written nothing
C25_Witness ==
    /\ last.op = "drain_messages" /\ last.status = "ok"
    /\ last.value = <<READY, HI>>
    /\ last.io = 9
    /\ out = <<REQUEST>> /\ inb = <<>>

\* a step of a call that reads frames
FrameReadStep ==
    /\ \* the stream has ended inside a frame: recv returns b'' and the call raises
       (/\ call.op \in {"read_text", "drain_messages"}
        /\ csock = "open" /\ pend = "closed"
        /\ read_frame(inb).status = "short"
        /\ call' # call)
       => \/ /\ call.blocked
             /\ call' = NoCall
             /\ last'.status = "raised"
             /\ last'.exc = WebSocketError(SOCKET_CLOSED)
             /\ last'.frame = call.frame
             /\ last'.data = inb
          \/ \* _recv_exact calls recv
             /\ ~call.blocked
             /\ call'.op = call.op /\ call'.blocked
             /\ call'.frame = call.frame /\ call'.msgs = call.msgs
          \/ \* read_text tests its deadline before it calls _read_frame
             /\ ~call.blocked
             /\ call' = NoCall
             /\ last'.exc = WebSocketError(TIMED_OUT)
    /\ \* a frame with no payload is a frame
       \A op \in {"read_text", "drain_messages"} :
          (Takes(op) /\ TakenFrame.payload = <<>>) =>
              /\ call' # NoCall => call'.frame = TakenFrame
              /\ call' = NoCall =>
                    /\ last'.frame = TakenFrame
                    /\ last'.exc # WebSocketError(SOCKET_CLOSED)
              /\ (op = "read_text" /\ TakenFrame.op = OP_TEXT) =>
                    last'.status = "ok" /\ last'.value = <<>>

\* C26: when the peer closes the socket while a frame is being read (before its 2
\* header bytes, inside the extended length, inside the mask key or inside the
\* payload), _read_frame raises 'Socket closed' and returns no frame; a frame with
\* a payload of length zero is returned as a frame with an empty payload and is
\* never reported as a closed connection.
C26_ClosedMidFrame == [][FrameReadStep]_vars

\* the stream ended inside the mask key of a masked Text frame
C26_Witness ==
    /\ last.op = "read_text" /\ last.status = "raised"
    /\ last.exc = WebSocketError(SOCKET_CLOSED)
    /\ last.data = <<128 + OP_TEXT, 128 + 2, 1, 2>>
    /\ read_frame(last.data).stage = "mask"

\* the bytes of data after its first CR LF CR LF; none if it has no such
RECURSIVE AfterBlankLine(_)
AfterBlankLine(data) ==
    IF Len(data) < 4 THEN <<>>
    ELSE IF SubSeq(data, 1, 4) = CRLFCRLF THEN SubSeq(data, 5, Len(data))
    ELSE AfterBlankLine(Tail(data))

\* C29: no byte the peer sends after the CR LF CR LF that ends its HTTP response is
\* lost: when connect() has returned, the bytes _read_http_response has taken from
\* the socket, which connect() then drops, end with that blank line, so that
\* whatever followed it is still there for _read_frame.
C29_NoByteLostAfterHandshake ==
    (last.op = "connect" /\ last.status = "ok") => AfterBlankLine(last.data) = <<>>

----------------------------------------------------------------------------
(* One read_text call in time: the client has connected and called read_text;
   the peer sends what it likes for as long as it likes, time passes second by
   second, and a recv that has waited self.timeout seconds raises. *)

\* WebSocketClient(host, port, timeout=10)
timeout == 10

\* bytes that can wait in the socket's receive buffer
MaxLiveBuf == 4

\* what the peer may send at any moment: whole frames, and a Ping in two segments
LiveSegments ==
    { peer_frame(OP_PING, <<120>>),
      peer_frame(OP_PONG, <<>>),
      peer_frame(OP_BINARY, <<120>>),
      peer_frame(OP_TEXT, HI),
      peer_frame(OP_CLOSE, <<>>),
      <<128 + OP_PING>>,
      <<1, 120>> }

\* connect() has returned normally and read_text() has just set its deadline
LiveInit ==
    /\ SessionIdle
    /\ CodecIdle
    /\ RestIdle
    /\ csock = "open"
    /\ out = <<>>
    /\ inb = <<>>
    /\ script = <<>>
    /\ pend = "open"
    /\ call = [NoCall EXCEPT !.op = "read_text", !.sock0 = "open"]
    /\ last = [NoResult EXCEPT !.op = "connect", !.status = "ok", !.sock1 = "open",
                               !.data = response(STATUS_101), !.writes = <<REQUEST>>]
    /\ ncalls = 1
    /\ connects = 1
    /\ ncloses = 0
    /\ oscloses = 0
    /\ failedAt = 0
    /\ elapsed = 0
    /\ waited = 0

\* read_text: "time.time() > deadline", never true
deadline_never(t) == FALSE

\* read_text: "time.time() > deadline", t seconds after the deadline was set
deadline_passed(t) == t > timeout

\* read_text(): one round of its loop: the deadline test, one _read_frame and what
\* the loop does with the frame
live_read_text_step ==
    /\ call.op = "read_text"
    /\ IF ~call.blocked /\ deadline_passed(elapsed)
       THEN /\ End(call, "raised", WebSocketError(TIMED_OUT), <<>>, csock)
            /\ UNCHANGED <<out, inb, waited>>
       ELSE
         LET r == read_frame(inb)
             f == Frame(r.opcode, r.payload)
             d == read_text_dispatch(f)
             c == [call EXCEPT !.frame = f, !.blocked = FALSE]
         IN IF r.status = "short"
            THEN \* recv starts to wait for the rest of the frame
                 /\ ~call.blocked
                 /\ Go([call EXCEPT !.blocked = TRUE])
                 /\ waited' = 0
                 /\ UNCHANGED <<out, inb>>
            ELSE /\ inb' = SubSeq(inb, r.used + 1, Len(inb))
                 /\ waited' = 0
                 /\ IF d.do = "raise" THEN End(c, "raised", d.exc, <<>>, csock) /\ UNCHANGED out
                    ELSE IF d.do = "return" THEN End(c, "ok", NoExc, d.text, csock) /\ UNCHANGED out
                    ELSE IF d.do = "continue" THEN Go(c) /\ UNCHANGED out
                    ELSE \/ \E mask \in ClientMasks :
                               /\ out' = Append(out, send_frame_bytes(OP_PONG, d.pong, mask))
                               /\ Go(c)
                         \/ \* sendall of the Pong raises
                            /\ End([c EXCEPT !.sendFailed = TRUE], "raised", OSError, <<>>, csock)
                            /\ UNCHANGED out
    /\ UNCHANGED <<elapsed, csock, script, pend, connects, ncloses, oscloses>>

\* _recv_exact: recv returns b'' because the peer has closed
live_recv_eof ==
    /\ call.op = "read_text"
    /\ recv_eof
    /\ UNCHANGED <<elapsed, waited>>

\* _recv_exact: the recv in progress has waited self.timeout seconds
live_recv_timeout ==
    /\ call.op = "read_text"
    /\ waited = timeout
    /\ recv_timeout
    /\ UNCHANGED <<elapsed, waited>>

\* one second passes; a recv does not wait longer than self.timeout
tick ==
    /\ call.op = "read_text"
    /\ ~(call.blocked /\ waited = timeout)
    /\ elapsed' = Min(elapsed + 1, timeout + 1)
    /\ waited' = IF call.blocked THEN waited + 1 ELSE waited
    /\ UNCHANGED clientVars

\* the peer sends a segment; a recv that is waiting gets it and, if the frame is
\* still short, waits anew.  The peer sends a Ping once it has read the Pongs.
live_peer_send ==
    /\ call.op = "read_text"
    /\ pend = "open"
    /\ \E seg \in LiveSegments :
          /\ Len(inb) + Len(seg) <= MaxLiveBuf
          /\ seg[1] = 128 + OP_PING => out = <<>>
          /\ inb' = inb \o seg
    /\ waited' = 0
    /\ UNCHANGED <<elapsed, csock, out, script, pend, call, last, ncalls, connects, ncloses,
                   oscloses, failedAt>>

\* the peer reads what the client has written
live_peer_take ==
    /\ call.op = "read_text"
    /\ out # <<>>
    /\ out' = <<>>
    /\ UNCHANGED <<elapsed, waited, csock, inb, script, pend, call, last, ncalls, connects,
                   ncloses, oscloses, failedAt>>

\* the peer closes its end
live_peer_close ==
    /\ call.op = "read_text"
    /\ peer_close
    /\ UNCHANGED <<elapsed, waited>>

LiveNext ==
    \/ live_read_text_step /\ UNCHANGED <<restVars, sessionVars, codecVars>>
    \/ live_recv_eof /\ UNCHANGED <<restVars, sessionVars, codecVars>>
    \/ live_recv_timeout /\ UNCHANGED <<restVars, sessionVars, codecVars>>
    \/ tick /\ UNCHANGED <<restVars, sessionVars, codecVars>>
    \/ live_peer_send /\ UNCHANGED <<restVars, sessionVars, codecVars>>
    \/ live_peer_take /\ UNCHANGED <<restVars, sessionVars, codecVars>>
    \/ live_peer_close /\ UNCHANGED <<restVars, sessionVars, codecVars>>

\* the client's thread runs, and time passes
LiveFairness ==
    /\ WF_vars(live_read_text_step /\ UNCHANGED <<restVars, sessionVars, codecVars>>)
    /\ WF_vars(live_recv_eof /\ UNCHANGED <<restVars, sessionVars, codecVars>>)
    /\ WF_vars(live_recv_timeout /\ UNCHANGED <<restVars, sessionVars, codecVars>>)
    /\ WF_vars(tick /\ UNCHANGED <<restVars, sessionVars, codecVars>>)

SpecLive == LiveInit /\ [][LiveNext]_vars /\ LiveFairness

\* the read_text call has ended
ReadTextEnded == call.op = "none" /\ last.op = "read_text"

\* C12: a read_text call ends, whatever the peer sends and for however long: it
\* returns the decoded payload of a Text frame and of no other frame, or raises
\* because the connection was closed (a Close frame, the end of the stream), or
\* raises a timeout, and that not before self.timeout seconds have passed since
\* the deadline was set ('Timed out waiting for text frame' only after more); the
\* one other way out is the OSError of a Pong that could not be written.
C12_ReadTextTerminates ==
    /\ <>ReadTextEnded
    /\ [](ReadTextEnded =>
            \/ /\ last.status = "ok"
               /\ last.frame.op = OP_TEXT
               /\ last.value = Decode(last.frame.payload)
            \/ /\ last.status = "raised"
               /\ last.exc = WebSocketError(CONNECTION_CLOSED)
               /\ last.frame.op = OP_CLOSE
            \/ /\ last.status = "raised"
               /\ last.exc = WebSocketError(SOCKET_CLOSED)
               /\ pend = "closed"
            \/ /\ last.status = "raised"
               /\ last.exc = WebSocketError(TIMED_OUT)
               /\ elapsed > timeout
            \/ /\ last.status = "raised"
               /\ last.exc = SocketTimeout
               /\ elapsed >= timeout
            \/ /\ last.status = "raised"
               /\ last.exc = OSError
               /\ last.sendFailed
               /\ last.frame.op = OP_PING)

\* the peer sent Pong frames only: read_text raised 'Timed out waiting for text
\* frame' after the deadline, the last frame read being a Pong
C12_Witness ==
    /\ ReadTextEnded
    /\ last.exc = WebSocketError(TIMED_OUT)
    /\ last.frame.op = OP_PONG
    /\ elapsed > timeout
    /\ pend = "open"

----------------------------------------------------------------------------
(* upload_file's completion wait in time: SpecWait *)

\* bytes that can wait unread in the socket's receive buffer
MaxWaitBuf == 7

\* what the device may send during the completion wait
WaitSegments ==
    { peer_frame(OP_TEXT, HI),
      peer_frame(OP_TEXT, DONE),
      peer_frame(OP_TEXT, ERROR),
      peer_frame(OP_PING, <<120>>),
      peer_frame(OP_PONG, <<>>),
      peer_frame(OP_CLOSE, <<>>) }

\* read_text has returned msg: upload_file returns, raises, or calls read_text again
WaitReply == completion_reply(last.value)

\* upload_file has left its "while True" loop by "return"
WaitDone ==
    call.op = "none" /\ last.op = "read_text" /\ last.status = "ok" /\ WaitReply.do = "return"

\* an exception has left the loop: one raised by read_text, or the device's ERROR
WaitFailed ==
    /\ call.op = "none" /\ last.op = "read_text"
    /\ \/ last.status = "raised"
       \/ last.status = "ok" /\ WaitReply.do = "raise"

WaitEnded == WaitDone \/ WaitFailed

\* "while True: msg = client.read_text()": the text was neither DONE nor an ERROR,
\* read_text is called again and sets a new deadline.  Of the calls that have ended
\* only connect() stays counted.
wait_again ==
    /\ call.op = "none" /\ last.op = "read_text" /\ last.status = "ok"
    /\ WaitReply.do = "wait"
    /\ call' = [NoCall EXCEPT !.op = "read_text", !.sock0 = csock]
    /\ ncalls' = 1
    /\ elapsed' = 0
    /\ waited' = 0
    /\ UNCHANGED <<csock, out, inb, script, pend, last, connects, ncloses, oscloses, failedAt>>

\* one second passes, inside a read_text call or between two
wait_tick ==
    /\ ~WaitEnded
    /\ ~(call.blocked /\ waited = timeout)
    /\ elapsed' = Min(elapsed + 1, timeout + 1)
    /\ waited' = IF call.blocked THEN waited + 1 ELSE waited
    /\ UNCHANGED clientVars

\* the device sends a frame; a recv that is waiting gets it.  It sends a Ping once
\* it has read the Pongs.
wait_peer_send ==
    /\ ~WaitEnded
    /\ pend = "open"
    /\ \E seg \in WaitSegments :
          /\ Len(inb) + Len(seg) <= MaxWaitBuf
          /\ seg[1] = 128 + OP_PING => out = <<>>
          /\ inb' = inb \o seg
    /\ waited' = 0
    /\ UNCHANGED <<elapsed, csock, out, script, pend, call, last, ncalls, connects, ncloses,
                   oscloses, failedAt>>

WaitNext ==
    \/ live_read_text_step /\ UNCHANGED <<restVars, sessionVars, codecVars>>
    \/ live_recv_eof /\ UNCHANGED <<restVars, sessionVars, codecVars>>
    \/ live_recv_timeout /\ UNCHANGED <<restVars, sessionVars, codecVars>>
    \/ wait_tick /\ UNCHANGED <<restVars, sessionVars, codecVars>>
    \/ wait_again /\ UNCHANGED <<restVars, sessionVars, codecVars>>
    \/ wait_peer_send /\ UNCHANGED <<restVars, sessionVars, codecVars>>
    \/ live_peer_take /\ UNCHANGED <<restVars, sessionVars, codecVars>>
    \/ live_peer_close /\ UNCHANGED <<restVars, sessionVars, codecVars>>

\* the client's thread runs, and time passes
WaitFairness ==
    /\ WF_vars(live_read_text_step /\ UNCHANGED <<restVars, sessionVars, codecVars>>)
    /\ WF_vars(live_recv_eof /\ UNCHANGED <<restVars, sessionVars, codecVars>>)
    /\ WF_vars(live_recv_timeout /\ UNCHANGED <<restVars, sessionVars, codecVars>>)
    /\ WF_vars(wait_tick /\ UNCHANGED <<restVars, sessionVars, codecVars>>)
    /\ WF_vars(wait_again /\ UNCHANGED <<restVars, sessionVars, codecVars>>)

SpecWait == LiveInit /\ [][WaitNext]_vars /\ WaitFairness

\* C30: the completion wait ends, with upload_file returning or raising, also
\* when the device keeps sending status texts that are neither DONE nor an ERROR,
\* each within the read timeout.
C30_CompletionWaitEnds == <>WaitEnded

----------------------------------------------------------------------------
(* UDP discovery: discover_device and _broadcast_from_host: SpecDiscover *)

\* "for _ in range(3)"
Rounds == 3
\* "port = 81", the port of a reply that names none
DefaultPort == 81
\* datagrams that reach the socket during one discovery
MaxDatagrams == 2

\* ports = [8134, 54982, 48123, 39001, 44044, 59678]
ports == <<8134, 54982, 48123, 39001, 44044, 59678>>

\* "255.255.255.255"
GLOBAL_BROADCAST == <<50, 53, 53, 46, 50, 53, 53, 46, 50, 53, 53, 46, 50, 53, 53>>
\* "255"
S255 == <<50, 53, 53>>
\* "192.168.4.1"
HOST_DEVICE == <<49, 57, 50, 46, 49, 54, 56, 46, 52, 46, 49>>
\* "192.168.4.255"
BCAST_DEVICE == <<49, 57, 50, 46, 49, 54, 56, 46, 52, 46, 50, 53, 53>>
\* "not-an-ip"
HOST_NAME == <<110, 111, 116, 45, 97, 110, 45, 105, 112>>
\* "1.2.3"
HOST_3PARTS == <<49, 46, 50, 46, 51>>
\* "1.2.3.4.5"
HOST_5PARTS == <<49, 46, 50, 46, 51, 46, 52, 46, 53>>
\* "1.2..4"
HOST_EMPTY_PART == <<49, 46, 50, 46, 46, 52>>
\* "192.168.4.999"
HOST_999 == <<49, 57, 50, 46, 49, 54, 56, 46, 52, 46, 57, 57, 57>>
\* "1.2.3.-4"
HOST_SIGNED == <<49, 46, 50, 46, 51, 46, 45, 52>>
\* "10.0.0.7"
HOST_OTHER == <<49, 48, 46, 48, 46, 48, 46, 55>>

\* the parts of s between the occurrences of the character sep: s.split(sep)
RECURSIVE Split(_, _)
Split(s, sep) ==
    IF \A i \in DOMAIN s : s[i] # sep THEN <<s>>
    ELSE LET k == CHOOSE i \in DOMAIN s : s[i] = sep /\ \A j \in 1..(i - 1) : s[j] # sep
         IN <<SubSeq(s, 1, k - 1)>> \o Split(SubSeq(s, k + 1, Len(s)), sep)

\* sep.join(parts)
RECURSIVE Join(_, _)
Join(parts, sep) ==
    IF parts = <<>> THEN <<>>
    ELSE IF Len(parts) = 1 THEN parts[1]
    ELSE parts[1] \o <<sep>> \o Join(Tail(parts), sep)

\* s.strip(), for blanks
RECURSIVE Strip(_)
Strip(s) ==
    IF s = <<>> THEN s
    ELSE IF s[1] = 32 THEN Strip(Tail(s))
    ELSE IF s[Len(s)] = 32 THEN Strip(SubSeq(s, 1, Len(s) - 1))
    ELSE s

IsDigit(c) == c \in 48..57

\* s without the sign int() accepts in front
Unsigned(s) == IF s # <<>> /\ s[1] \in {43, 45} THEN Tail(s) ELSE s

\* int(s) does not raise: blanks around, an optional sign, then decimal digits,
\* with single underscores allowed between digits
int_ok(s) ==
    LET u == Unsigned(Strip(s))
    IN /\ u # <<>>
       /\ \A i \in DOMAIN u :
             \/ IsDigit(u[i])
             \/ /\ u[i] = 95
                /\ 1 < i /\ i < Len(u)
                /\ IsDigit(u[i - 1]) /\ IsDigit(u[i + 1])

\* the value of a string of digits and underscores
RECURSIVE DigitsValue(_)
DigitsValue(u) ==
    IF u = <<>> THEN 0
    ELSE IF u[Len(u)] = 95 THEN DigitsValue(SubSeq(u, 1, Len(u) - 1))
    ELSE 10 * DigitsValue(SubSeq(u, 1, Len(u) - 1)) + (u[Len(u)] - 48)

\* int(s), where it does not raise
int_value(s) ==
    LET t == Strip(s)
    IN IF t # <<>> /\ t[1] = 45 THEN 0 - DigitsValue(Unsigned(t)) ELSE DigitsValue(Unsigned(t))

\* _broadcast_from_host that accepts any four parts
broadcast_from_host_unparsed(host) ==
    LET parts == Split(host, 46)
    IN IF Len(parts) # 4 THEN <<>>
       ELSE Join(<<parts[1], parts[2], parts[3], S255>>, 46)

\* _broadcast_from_host(host); <<>> stands for None
broadcast_from_host(host) ==
    LET parts == Split(host, 46)
    IN IF Len(parts) # 4 THEN <<>>
       ELSE IF \E i \in 1..4 : ~int_ok(parts[i]) THEN <<>>
       ELSE Join(<<parts[1], parts[2], parts[3], S255>>, 46)

\* (h, port) for each port, in the order of ports
OnEachPort(h) == [i \in 1..Len(ports) |-> <<h, ports[i]>>]

\* what one candidate host adds to targets
host_targets(host) ==
    IF host = <<>> THEN <<>>
    ELSE OnEachPort(host) \o
         (IF broadcast_from_host(host) # <<>> THEN OnEachPort(broadcast_from_host(host))
          ELSE <<>>)

RECURSIVE hosts_targets(_)
hosts_targets(hosts) ==
    IF hosts = <<>> THEN <<>> ELSE host_targets(Head(hosts)) \o hosts_targets(Tail(hosts))

\* discover_device: the target list built from extra_hosts
discovery_targets(hosts) == OnEachPort(GLOBAL_BROADCAST) \o hosts_targets(hosts)

\* the port a reply text names after its first ";", or 81
reply_port(text) ==
    IF \A i \in DOMAIN text : text[i] # 59 THEN DefaultPort
    ELSE LET semi == CHOOSE i \in DOMAIN text : text[i] = 59 /\ \A j \in 1..(i - 1) : text[j] # 59
             field == Split(Strip(SubSeq(text, semi + 1, Len(text))), 44)[1]
         IN IF int_ok(field) THEN int_value(field) ELSE DefaultPort

\* "for _ in range(3)" that never ends
another_round_always(n) == TRUE

\* "for _ in range(3)": there is another round after n rounds
another_round(n) == n < Rounds

\* sendto without the try/except around it
send_outcome_raises(ok) == IF ok THEN "next" ELSE "raise"

\* "try: sock.sendto(...) except Exception: pass": what follows a sendto
send_outcome(ok) == "next"

\* candidate host lists: none, each host alone, the device's address with a name
HostLists ==
    { <<>>, <<HOST_DEVICE>>, <<HOST_NAME>>, <<HOST_3PARTS>>, <<HOST_5PARTS>>,
      <<HOST_EMPTY_PART>>, <<HOST_999>>, <<HOST_SIGNED>>, << <<>> >>,
      <<HOST_NAME, HOST_DEVICE>> }

\* reply texts: "crosspoint", "crosspoint;8080,x", "crosspoint;abc", "crosspoint; 82 "
ReplyTexts ==
    { <<99, 114, 111, 115, 115, 112, 111, 105, 110, 116>>,
      <<99, 114, 111, 115, 115, 112, 111, 105, 110, 116, 59, 56, 48, 56, 48, 44, 120>>,
      <<99, 114, 111, 115, 115, 112, 111, 105, 110, 116, 59, 97, 98, 99>>,
      <<99, 114, 111, 115, 115, 112, 111, 105, 110, 116, 59, 32, 56, 50, 32>> }

\* the datagrams that may reach the socket: (data, addr)
Datagrams == [data : ReplyTexts, from : {HOST_DEVICE, HOST_OTHER}]

\* (None, None)
NoneNone == <<>>

DiscoverInit ==
    /\ SessionIdle /\ CodecIdle /\ ClientIdle /\ LiveIdle
    /\ doneAfterLast = FALSE
    /\ dpc = "start"
    /\ extra_hosts \in HostLists
    /\ targets = <<>>
    /\ attempt = 0 /\ ti = 0
    /\ failedRounds = {}
    /\ dgrams = <<>> /\ arrived = 0
    /\ result = NoneNone

\* the socket is made and the target list built
build_targets ==
    /\ dpc = "start"
    /\ targets' = discovery_targets(extra_hosts)
    /\ dpc' = "send"
    /\ UNCHANGED <<extra_hosts, attempt, ti, failedRounds, dgrams, arrived, result>>

\* one sendto of the round, which succeeds or raises
send_probe ==
    /\ dpc = "send"
    /\ \E ok \in BOOLEAN :
          /\ failedRounds' = IF ok THEN failedRounds ELSE failedRounds \cup {attempt}
          /\ IF send_outcome(ok) = "raise"
             THEN dpc' = "raised" /\ ti' = ti
             ELSE /\ ti' = ti + 1
                  /\ dpc' = IF ti + 1 = Len(targets) THEN "listen" ELSE "send"
    /\ UNCHANGED <<extra_hosts, targets, attempt, dgrams, arrived, result>>

\* recvfrom returns a datagram: discover_device returns its sender and port
recv_datagram ==
    /\ dpc = "listen"
    /\ dgrams # <<>>
    /\ result' = <<Head(dgrams).from, reply_port(Decode(Head(dgrams).data))>>
    /\ dgrams' = Tail(dgrams)
    /\ dpc' = "returned"
    /\ UNCHANGED <<extra_hosts, targets, attempt, ti, failedRounds, arrived>>

\* recvfrom raises (its 0.5 s have passed): the round ends
recv_nothing ==
    /\ dpc = "listen"
    /\ dgrams = <<>>
    /\ attempt' = attempt + 1
    /\ ti' = 0
    /\ dpc' = IF another_round(attempt + 1) THEN "send" ELSE "returned"
    /\ UNCHANGED <<extra_hosts, targets, failedRounds, dgrams, arrived, result>>

\* a datagram reaches the socket
datagram_arrives ==
    /\ dpc \in {"send", "listen"}
    /\ arrived < MaxDatagrams
    /\ \E d \in Datagrams : dgrams' = Append(dgrams, d)
    /\ arrived' = arrived + 1
    /\ UNCHANGED <<dpc, extra_hosts, targets, attempt, ti, failedRounds, result>>

DiscoverOnly == UNCHANGED <<doneAfterLast, sessionVars, codecVars, clientVars, liveVars>>

DiscoverNext ==
    \/ build_targets /\ DiscoverOnly
    \/ send_probe /\ DiscoverOnly
    \/ recv_datagram /\ DiscoverOnly
    \/ recv_nothing /\ DiscoverOnly
    \/ datagram_arrives /\ DiscoverOnly

SpecDiscover == DiscoverInit /\ [][DiscoverNext]_vars

\* sendto calls made so far
Probes == attempt * Len(targets) + ti

\* datagrams recvfrom has returned
Taken == arrived - Len(dgrams)

\* where a discovery stands
DiscoveryRounds ==
    /\ attempt <= Rounds
    /\ dpc \in {"send", "listen"} => attempt < Rounds
    /\ dpc \in {"start", "send", "listen", "returned"}
    /\ dpc # "returned" => Taken = 0 /\ result = NoneNone
    /\ dpc = "returned" =>
          \/ result = NoneNone /\ attempt = Rounds /\ Taken = 0 /\ dgrams = <<>>
          \/ result # NoneNone /\ attempt < Rounds /\ Taken = 1

\* a step of discover_device: the datagram recvfrom returns ends the call with
\* its sender and the port it names; nothing happens after the return
DiscoveryStep ==
    /\ (dpc = "listen" /\ dgrams' # dgrams /\ arrived' = arrived) =>
          /\ dpc' = "returned"
          /\ result' = <<Head(dgrams).from, reply_port(Decode(Head(dgrams).data))>>
          /\ Probes' = Probes
    /\ dpc = "returned" => UNCHANGED discoverVars
    /\ Probes' # Probes => dpc = "send" \/ (dpc = "listen" /\ dgrams = <<>>)

\* C21: discover_device runs at most 3 probe rounds, returns the sender and port
\* of the first reply received and sends no probe after it; it returns
\* (None, None) only when all 3 rounds have ended without a reply, and a
\* discovery that finds nothing returns, it does not raise.
C21_DiscoveryRounds == []DiscoveryRounds /\ [][DiscoveryStep]_vars

\* the reply "crosspoint;8080,x" of 192.168.4.1 was taken in the second round,
\* while another datagram was waiting behind it
C21_Witness ==
    /\ dpc = "returned"
    /\ result = <<HOST_DEVICE, 8080>>
    /\ attempt = 1
    /\ Len(dgrams) = 1 /\ dgrams[1].from = HOST_OTHER
    /\ Probes = Len(targets) * 2

\* every round that listens, and every round that has ended, has called sendto
\* for each target
AllTargetsProbed ==
    /\ dpc \in {"send", "listen", "returned"} => Len(targets) >= Len(ports)
    /\ dpc = "send" => ti < Len(targets)
    /\ dpc = "listen" => ti = Len(targets)
    /\ (dpc = "returned" /\ result = NoneNone) => Probes = Rounds * Len(targets)
    /\ (dpc = "returned" /\ result # NoneNone) => ti = Len(targets)
    /\ failedRounds \subseteq 0..(Rounds - 1)

\* a sendto, raising or not, is followed by the sendto for the next target or,
\* after the last target, by the round's recvfrom; a silent round is followed by
\* the next
ProbeStep ==
    /\ dpc = "send" =>
          /\ dpc' \in {"send", "listen"}
          /\ ti' \in {ti, ti + 1}
          /\ attempt' = attempt /\ targets' = targets
          /\ failedRounds' # failedRounds => ti' = ti + 1
    /\ (dpc = "send" /\ dpc' = "listen") => ti' = Len(targets)
    /\ (dpc = "listen" /\ dgrams = <<>> /\ attempt' # attempt) =>
          /\ attempt' = attempt + 1
          /\ dpc' = IF attempt + 1 < Rounds THEN "send" ELSE "returned"
          /\ ti' = 0

\* C23: in every round a sendto that raises for one target does not end the
\* probing: sendto is still called for every remaining target of the round, the
\* round then listens, and the later rounds run.
C23_SendErrorsNotFatal == []AllTargetsProbed /\ [][ProbeStep]_vars

\* a sendto raised in each of the three rounds; all 3 x 18 probes were attempted
\* for the device's address and the discovery ended without a reply
C23_Witness ==
    /\ dpc = "returned" /\ result = NoneNone
    /\ failedRounds = {0, 1, 2}
    /\ extra_hosts = <<HOST_DEVICE>>
    /\ Probes = 54

\* p is a decimal octet: one to three digits with a value up to 255
IsOctet(p) ==
    /\ Len(p) \in 1..3
    /\ \A i \in DOMAIN p : IsDigit(p[i])
    /\ DigitsValue(p) <= 255

\* h is a dotted IPv4 address a.b.c.d
IsDottedIPv4(h) ==
    LET parts == Split(h, 46)
    IN Len(parts) = 4 /\ \A i \in 1..4 : IsOctet(parts[i])

\* h has four dot-separated parts and int() accepts each
IsFourInts(h) ==
    LET parts == Split(h, 46)
    IN Len(parts) = 4 /\ \A i \in 1..4 : int_ok(parts[i])

\* a.b.c.255 for a host a.b.c.d
SubnetBroadcast(h) ==
    LET parts == Split(h, 46) IN Join(<<parts[1], parts[2], parts[3], S255>>, 46)

\* the target list has host h on each of the six ports
Probed(h) == \A k \in DOMAIN ports : \E i \in DOMAIN targets : targets[i] = <<h, ports[k]>>

\* the candidate hosts that are not blank
Candidates == { extra_hosts[k] : k \in DOMAIN extra_hosts } \ { <<>> }

\* the hosts of the target list
TargetHosts == { targets[i][1] : i \in DOMAIN targets }

\* C22: the target list holds, on each of the six ports, every candidate host
\* itself and, for a candidate that is a dotted IPv4 address a.b.c.d, the subnet
\* broadcast a.b.c.255; a candidate that is not four dot-separated decimal
\* octets adds no subnet broadcast target.
C22_TargetDerivation ==
    dpc # "start" =>
        /\ \A h \in Candidates :
              /\ Probed(h)
              /\ IsDottedIPv4(h) => Probed(SubnetBroadcast(h))
        /\ TargetHosts =
              {GLOBAL_BROADCAST} \cup Candidates
                  \cup { SubnetBroadcast(h) : h \in { c \in Candidates : IsDottedIPv4(c) } }

\* the same with the test the code makes: four parts that int() accepts
C22_TargetsAsParsed ==
    dpc # "start" =>
        /\ \A h \in Candidates :
              /\ Probed(h)
              /\ IsFourInts(h) => Probed(SubnetBroadcast(h))
        /\ TargetHosts =
              {GLOBAL_BROADCAST} \cup Candidates
                  \cup { SubnetBroadcast(h) : h \in { c \in Candidates : IsFourInts(c) } }
        /\ Len(targets) = Len(ports) * Cardinality(TargetHosts)

\* 192.168.4.1 with the name not-an-ip: 4 x 6 targets, 192.168.4.255 among them
C22_ParsedWitness ==
    /\ dpc = "send"
    /\ extra_hosts = <<HOST_NAME, HOST_DEVICE>>
    /\ Len(targets) = 24
    /\ targets[7] = <<HOST_NAME, 8134>>
    /\ targets[13] = <<HOST_DEVICE, 8134>>
    /\ targets[24] = <<BCAST_DEVICE, 59678>>

=============================================================================
